---- MODULE Spec2Model ----
(***************************************************************************)
(* Model of the interpolation subsystem of go-easy-config: the tag parser, *)
(* the dependency graph (BuildDependencyGraph, DetectCycle,                *)
(* TopologicalSort), the InterpolationEngine (Analyze, UpdateContext,      *)
(* InterpolateTags) and the InterpolatingChainLoader driver.               *)
(*                                                                         *)
(* Go maps are iterated in an unspecified order: every `range` over a map  *)
(* is modelled by a permutation of its keys chosen nondeterministically.   *)
(* A text is a sequence of symbols; a symbol is one character, except that *)
(* the literals `availableAs=`, `config:"` and `secret:"` are one symbol.  *)
(***************************************************************************)
EXTENDS Integers, Sequences, FiniteSets, TLC

\* ---------------------------------------------------------------- bounds
NumGraphFields == 3 \* nodes of the graphs built by direct callers
MaxRefs == 3        \* references in the input of BuildDependencyGraph, all fields together
NumFields == 4      \* fields of the analysed record type
NumLoadFields == 3  \* fields of the record type handed to Load
NumLoaders == 2     \* longest Loaders list
MaxLoads == 2       \* calls of Load on one driver

\* Variable names are texts.
GraphVars == {<<"A">>, <<"B">>}

\* Go struct field names are distinct; field i is called AllFieldNames[i + 1]
AllFieldNames == <<"F0", "F1", "F2", "F3", "F4", "F5", "F6">>
FieldNamesOf(n) == [f \in 0 .. (n - 1) |-> AllFieldNames[f + 1]]

\* ------------------------------------------------------------- utilities
RECURSIVE SeqsUpTo(_, _)
SeqsUpTo(S, n) ==
    IF n = 0 THEN {<<>>}
    ELSE LET shorter == SeqsUpTo(S, n - 1)
         IN  shorter \cup {Append(s, x) : s \in {t \in shorter : Len(t) = n - 1}, x \in S}

\* every iteration order a `range` over a map with key set S can take
RECURSIVE Orders(_)
Orders(S) ==
    IF S = {} THEN {<<>>}
    ELSE UNION {{<<x>> \o o : o \in Orders(S \ {x})} : x \in S}

InSeq(x, s) == \E i \in 1 .. Len(s) : s[i] = x
SeqToSet(s) == {s[i] : i \in 1 .. Len(s)}

\* index of the first element of s satisfying Test, 0 when there is none
FirstIndex(s, Test(_)) ==
    IF \E i \in 1 .. Len(s) : Test(s[i])
    THEN CHOOSE i \in 1 .. Len(s) : Test(s[i]) /\ \A j \in 1 .. (i - 1) : ~Test(s[j])
    ELSE 0

IndexOf(s, x) == FirstIndex(s, LAMBDA y : y = x)

MapPut(m, k, v) == [x \in (DOMAIN m) \cup {k} |-> IF x = k THEN v ELSE m[x]]
EmptyMap == <<>>

\* ---------------------------------------------------------------- errors
NoError == [kind |-> "none"]
TagParseError(name, issue) == [kind |-> "tagparse", FieldName |-> name, Issue |-> issue]
InterpolationError(name, msg) == [kind |-> "interpolation", FieldName |-> name, Message |-> msg]
DuplicateAvailableAsError(v, fs) == [kind |-> "duplicate", VariableName |-> v, Fields |-> fs]
UndefinedVariableError(name, v) == [kind |-> "undefined", FieldName |-> name, VariableName |-> v]
CyclicDependencyError(c) == [kind |-> "cycle", Cycle |-> c]
DependencyGraphError == [kind |-> "sort"]
\* fmt.Errorf without and with a wrapped error (%w)
Errorf(msg, arg) == [kind |-> "errorf", Message |-> msg, Arg |-> arg]
\* an fmt.Errorf that formats the cause with %v: the cause is not kept
Wrap_Flat(msg, arg, e) == [kind |-> "errorf", Message |-> msg, Arg |-> arg]
\* fmt.Errorf with %w
Wrap(msg, arg, e) == [kind |-> "wrapped", Message |-> msg, Arg |-> arg, Unwrap |-> e]

\* ------------------------------------------------------------ tag parser
\* the characters of [A-Za-z0-9_-] that occur in the texts of the model
NameChars == {"A", "B", "C", "D", "x", "_"}

\* ValidateVariableName: nil (TRUE) iff name matches ^[A-Za-z0-9_-]+$
ValidateVariableName(name) ==
    name # <<>> /\ \A i \in 1 .. Len(name) : name[i] \in NameChars

\* text up to the first occurrence of sym, the whole text when there is none
CutAt(text, sym) ==
    IF IndexOf(text, sym) # 0 THEN SubSeq(text, 1, IndexOf(text, sym) - 1) ELSE text

\* text after the first occurrence of sym
After(text, sym) == SubSeq(text, IndexOf(text, sym) + 1, Len(text))

\* ParseConfigTag, from the emptiness check of the extracted value on
ParseAvailableAsValue(value) ==
    IF value = <<>>
    THEN [name |-> <<>>, err |-> TagParseError("<unknown>", "empty availableAs value")]
    ELSE IF ~ValidateVariableName(value)
         THEN [name |-> <<>>, err |-> TagParseError("<unknown>", "invalid availableAs value")]
         ELSE [name |-> value, err |-> NoError]

\* ParseConfigTag: the text after `availableAs=` up to the first comma, then up
\* to the first space (strings.TrimSpace then has nothing left to strip)
ParseConfigTag(tag) ==
    IF tag = <<>>
    THEN [name |-> <<>>, err |-> TagParseError("<unknown>", "empty config tag")]
    ELSE IF IndexOf(tag, "availableAs=") = 0
         THEN [name |-> <<>>,
               err |-> TagParseError("<unknown>", "availableAs not found in config tag")]
         ELSE ParseAvailableAsValue(CutAt(CutAt(After(tag, "availableAs="), ","), " "))

\* length of the longest run of name characters of s starting at position k
RECURSIVE NameRun(_, _)
NameRun(s, k) ==
    IF k <= Len(s) /\ s[k] \in NameChars THEN 1 + NameRun(s, k + 1) ELSE 0

\* a pattern that takes any character for the closing brace: \$\{([A-Za-z0-9_-]+).
MatchAt_AnyClose(s, i) ==
    IF i + 1 <= Len(s) /\ s[i] = "$" /\ s[i + 1] = "{" /\ i + 2 + NameRun(s, i + 2) <= Len(s)
    THEN NameRun(s, i + 2)
    ELSE 0

\* length of the name of the match of \$\{([A-Za-z0-9_-]+)\} that starts at
\* position i of s, 0 when there is no match there
MatchAt(s, i) ==
    IF i + 1 <= Len(s) /\ s[i] = "$" /\ s[i + 1] = "{"
    THEN LET n == NameRun(s, i + 2)
         IN  IF n > 0 /\ i + 2 + n <= Len(s) /\ s[i + 2 + n] = "}" THEN n ELSE 0
    ELSE 0

\* FindVariableReferences: the names of the leftmost non-overlapping matches,
\* left to right, duplicates included
RECURSIVE FindFrom(_, _)
FindFrom(s, i) ==
    IF i > Len(s) THEN <<>>
    ELSE LET n == MatchAt(s, i)
         IN  IF n > 0
             THEN <<SubSeq(s, i + 2, i + 1 + n)>> \o FindFrom(s, i + n + 3)
             ELSE FindFrom(s, i + 1)

FindVariableReferences(s) == FindFrom(s, 1)

\* reflect.StructTag.Get("config"): the text between `config:"` and the next
\* quote, empty when the tag has no config key
TagGetConfig(tag) ==
    IF IndexOf(tag, "config:\"") = 0 THEN <<>>
    ELSE CutAt(After(tag, "config:\""), "\"")

\* InterpolateString, the ReplaceAllStringFunc scan from position i on: the
\* text with every match replaced by its context value (kept when the name is
\* missing) and the missing names, one per occurrence, left to right
RECURSIVE InterpolateFrom(_, _, _)
InterpolateFrom(s, i, context) ==
    IF i > Len(s) THEN [out |-> <<>>, missingVars |-> <<>>]
    ELSE LET n == MatchAt(s, i)
             varName == SubSeq(s, i + 2, i + 1 + n)
             rest == InterpolateFrom(s, IF n > 0 THEN i + n + 3 ELSE i + 1, context)
         IN  IF n = 0
             THEN [rest EXCEPT !.out = <<s[i]>> \o @]
             ELSE IF varName \in DOMAIN context
                  THEN [rest EXCEPT !.out = context[varName] \o @]
                  ELSE [out |-> SubSeq(s, i, i + n + 2) \o rest.out,
                        missingVars |-> <<varName>> \o rest.missingVars]

\* an InterpolateString that reports the first missing name only
InterpolateString_FailFast(s, context) ==
    IF InterpolateFrom(s, 1, context).missingVars # <<>>
    THEN [text |-> <<>>,
          err |-> Errorf("undefined variables",
                         <<Head(InterpolateFrom(s, 1, context).missingVars)>>)]
    ELSE [text |-> InterpolateFrom(s, 1, context).out, err |-> NoError]

\* InterpolateString: the error lists the missing names and no text is returned
InterpolateString(s, context) ==
    IF InterpolateFrom(s, 1, context).missingVars # <<>>
    THEN [text |-> <<>>,
          err |-> Errorf("undefined variables", InterpolateFrom(s, 1, context).missingVars)]
    ELSE [text |-> InterpolateFrom(s, 1, context).out, err |-> NoError]
\* ------------------------------------------------------ dependency graph
NoGraph == [nodes |-> <<>>, edges |-> <<>>, built |-> FALSE]

\* the inner loop of BuildDependencyGraph for one field: one edge from p per
\* reference of f whose provider is p
EdgesOfField(p, f, varNames, avail) ==
    LET hits == SelectSeq(varNames, LAMBDA v : avail[v] = p)
    IN  [i \in 1 .. Len(hits) |-> f]

\* edges[p] after the fields of order have been visited
RECURSIVE EdgesFrom(_, _, _, _)
EdgesFrom(p, order, deps, avail) ==
    IF order = <<>> THEN <<>>
    ELSE EdgesOfField(p, Head(order), deps[Head(order)], avail)
         \o EdgesFrom(p, Tail(order), deps, avail)

\* an in-degree that counts the distinct variables a field references
CountIncrements_Distinct(varNames) == Cardinality(SeqToSet(varNames))

\* number of times graph.nodes[f].inDegree++ runs for the references of f
RECURSIVE CountIncrements(_)
CountIncrements(varNames) ==
    IF varNames = <<>> THEN 0 ELSE 1 + CountIncrements(Tail(varNames))

HasUndefined(varNames, avail) ==
    \E i \in 1 .. Len(varNames) : varNames[i] \notin DOMAIN avail

\* the last undefined name instead of the first
FirstUndefined_Last(varNames, avail) ==
    varNames[CHOOSE i \in 1 .. Len(varNames) :
                /\ varNames[i] \notin DOMAIN avail
                /\ \A j \in (i + 1) .. Len(varNames) : varNames[j] \in DOMAIN avail]

\* the validation loops return at the first name that has no provider
FirstUndefined(varNames, avail) ==
    varNames[FirstIndex(varNames, LAMBDA v : v \notin DOMAIN avail)]

\* a BuildDependencyGraph that returns the nodes it has made along with the error
BuildDependencyGraph_Partial(deps, avail, names, order) ==
    [graph |-> [nodes |-> [f \in DOMAIN names |->
                             [fieldIndex |-> f, fieldName |-> names[f], inDegree |-> 0]],
                edges |-> [p \in DOMAIN names |-> <<>>],
                built |-> TRUE],
     err   |-> IF \E f \in DOMAIN deps : HasUndefined(deps[f], avail)
               THEN UndefinedVariableError(
                        names[CHOOSE f \in DOMAIN deps : HasUndefined(deps[f], avail)],
                        FirstUndefined(deps[CHOOSE f \in DOMAIN deps : HasUndefined(deps[f], avail)],
                                       avail))
               ELSE NoError]

\* a BuildDependencyGraph that makes nodes for the fields that take part in
\* a dependency only
BuildDependencyGraph_ReferencedOnly(deps, avail, names, order) ==
    IF FirstIndex(order, LAMBDA f : HasUndefined(deps[f], avail)) # 0
    THEN [graph |-> NoGraph,
          err   |-> UndefinedVariableError(
                        names[order[FirstIndex(order, LAMBDA f : HasUndefined(deps[f], avail))]],
                        <<>>)]
    ELSE [graph |-> [nodes |-> [f \in DOMAIN deps \cup {avail[v] : v \in DOMAIN avail} |->
                                  [fieldIndex |-> f,
                                   fieldName  |-> names[f],
                                   inDegree   |-> IF f \in DOMAIN deps
                                                  THEN CountIncrements(deps[f]) ELSE 0]],
                     edges |-> [p \in DOMAIN deps \cup {avail[v] : v \in DOMAIN avail} |->
                                  EdgesFrom(p, order, deps, avail)],
                     built |-> TRUE],
          err   |-> NoError]

\* BuildDependencyGraph; order is the iteration order of `range dependencies`
BuildDependencyGraph(deps, avail, names, order) ==
    LET bad == FirstIndex(order, LAMBDA f : HasUndefined(deps[f], avail))
    IN  IF bad # 0
        THEN [graph |-> NoGraph,
              err   |-> UndefinedVariableError(names[order[bad]],
                                               FirstUndefined(deps[order[bad]], avail))]
        ELSE [graph |-> [nodes |-> [f \in DOMAIN names |->
                                      [fieldIndex |-> f,
                                       fieldName  |-> names[f],
                                       inDegree   |-> IF f \in DOMAIN deps
                                                      THEN CountIncrements(deps[f]) ELSE 0]],
                         edges |-> [p \in DOMAIN names |-> EdgesFrom(p, order, deps, avail)],
                         built |-> TRUE],
              err   |-> NoError]

\* DFS marks of DetectCycle
unvisited == 0
visiting == 1
visited == 2

\* the closure dfs of DetectCycle: returns found, the marks, the path and (when
\* found) the in-progress node the back edge points to
RECURSIVE dfs(_, _, _, _)
RECURSIVE dfsNeighbors(_, _, _, _, _)
dfs(g, nodeIndex, state, path) ==
    dfsNeighbors(g, nodeIndex, 1, [state EXCEPT ![nodeIndex] = visiting], Append(path, nodeIndex))

dfsNeighbors(g, nodeIndex, i, state, path) ==
    IF i > Len(g.edges[nodeIndex])
    THEN [found |-> FALSE,
          state |-> [state EXCEPT ![nodeIndex] = visited],
          path  |-> SubSeq(path, 1, Len(path) - 1),
          back  |-> nodeIndex]
    ELSE LET neighbor == g.edges[nodeIndex][i]
         IN  IF state[neighbor] = visiting
             THEN [found |-> TRUE, state |-> state, path |-> path, back |-> neighbor]
             ELSE IF state[neighbor] = unvisited
                  THEN LET r == dfs(g, neighbor, state, path)
                       IN  IF r.found THEN r
                           ELSE dfsNeighbors(g, nodeIndex, i + 1, r.state, r.path)
                  ELSE dfsNeighbors(g, nodeIndex, i + 1, state, path)

\* a traversal that starts from the first root only
dfsRoots_FirstRootOnly(g, order, state) ==
    IF order = <<>>
    THEN [found |-> FALSE, state |-> state, path |-> <<>>, back |-> 0]
    ELSE dfs(g, Head(order), state, <<>>)

\* the loop over the roots; order is the iteration order of `range g.nodes`
RECURSIVE dfsRoots(_, _, _)
dfsRoots(g, order, state) ==
    IF order = <<>>
    THEN [found |-> FALSE, state |-> state, path |-> <<>>, back |-> 0]
    ELSE IF state[Head(order)] = unvisited
         THEN LET r == dfs(g, Head(order), state, <<>>)
              IN  IF r.found THEN r ELSE dfsRoots(g, Tail(order), r.state)
         ELSE dfsRoots(g, Tail(order), state)

NamesOf(g, path) == [i \in 1 .. Len(path) |-> g.nodes[path[i]].fieldName]

NoCycle == [isNil |-> TRUE, path |-> <<>>, dfsPath |-> <<>>, back |-> 0]

\* DetectCycle: nil, or the names of the DFS path closed with its first name;
\* dfsPath and back record the DFS path and the target of the back edge
DetectCycle(g, order) ==
    LET r == dfsRoots(g, order, [f \in DOMAIN g.nodes |-> unvisited])
    IN  IF r.found
        THEN [isNil |-> FALSE,
              path  |-> IF Len(r.path) > 0
                        THEN Append(NamesOf(g, r.path), NamesOf(g, r.path)[1])
                        ELSE <<>>,
              dfsPath |-> r.path, back |-> r.back]
        ELSE NoCycle

\* a round that ignores the remaining in-degree
CurrentStage_IgnoreInDegree(order, processed, inDegree) ==
    SelectSeq(order, LAMBDA idx : idx \notin processed)

\* a round that takes one ready node only
CurrentStage_FirstOnly(order, processed, inDegree) ==
    IF SelectSeq(order, LAMBDA idx : idx \notin processed /\ inDegree[idx] = 0) = <<>>
    THEN <<>>
    ELSE <<Head(SelectSeq(order, LAMBDA idx : idx \notin processed /\ inDegree[idx] = 0))>>

\* one round of Kahn's algorithm: the unprocessed nodes of in-degree 0, in the
\* iteration order of `range g.nodes`
CurrentStage(order, processed, inDegree) ==
    SelectSeq(order, LAMBDA idx : idx \notin processed /\ inDegree[idx] = 0)

RECURSIVE Decrement(_, _)
Decrement(inDegree, neighbors) ==
    IF neighbors = <<>> THEN inDegree
    ELSE Decrement([inDegree EXCEPT ![Head(neighbors)] = @ - 1], Tail(neighbors))

RECURSIVE ProcessStage(_, _, _)
ProcessStage(g, stage, inDegree) ==
    IF stage = <<>> THEN inDegree
    ELSE ProcessStage(g, Tail(stage), Decrement(inDegree, g.edges[Head(stage)]))

\* the level-by-level loop of TopologicalSort, after its cycle check; the rounds
\* select disjoint sets of nodes, so one order induces every combination of
\* the iteration orders of the rounds
RECURSIVE KahnRounds(_, _, _, _, _)
KahnRounds(g, order, stages, processed, inDegree) ==
    IF ~(Cardinality(processed) < Cardinality(DOMAIN g.nodes))
    THEN [stages |-> stages, err |-> NoError]
    ELSE LET currentStage == CurrentStage(order, processed, inDegree)
         IN  IF Len(currentStage) = 0
             THEN [stages |-> <<>>, err |-> DependencyGraphError]
             ELSE KahnRounds(g, order, Append(stages, currentStage),
                             processed \cup SeqToSet(currentStage),
                             ProcessStage(g, currentStage, inDegree))

InDegreeCopy(g) == [f \in DOMAIN g.nodes |-> g.nodes[f].inDegree]

\* ----------------------------------------------------------------- state
VARIABLES
    pc,                \* position of the caller, of Analyze or of Load
    recordType,        \* the fields of the record type T: exported flag and tag
    availableAsMap,    \* variable name -> providing field index
    dependencies,      \* field index -> the variable names it references
    hasInterpolation,  \* engine flag
    dependencyStages,  \* stages last returned by TopologicalSort / stored by Analyze
    graph,             \* the *DependencyGraph last built (NoGraph: none)
    cyclePath,         \* result of the last DetectCycle call
    err,               \* the error last returned by the graph or by Analyze (NoError: nil)
    interpolationContext, \* engine: variable name -> text of its value
    engineNil,         \* driver: l.engine == nil
    Loaders,           \* driver: the loader list
    LoadersIsNil,      \* driver: l.Loaders == nil
    ShortCircuit,      \* driver: the ShortCircuit flag
    cfg,               \* the record handed to Load: field index -> value
    stageNum,          \* loadWithInterpolation: index of the stage in progress
    loaderIndex,       \* loop index i of the loader loops
    calls,             \* history of the current Load: the calls it made, in order
    result,            \* the error the last Load returned (NoError: nil)
    loadCount,         \* number of Load calls made on the driver
    apiCall,           \* the last call a direct caller of the engine made
    returnedContext,   \* the map GetInterpolationContext last returned, as its caller holds it
    returnedIsNil,     \* that map is nil
    returnedAlias,     \* that map is the engine's own map, not a copy of it
    inputText,         \* the text handed to InterpolateString
    interpolated       \* what InterpolateString returned for it

graphVars == <<graph, cyclePath>>
engineVars == <<availableAsMap, dependencies, hasInterpolation, dependencyStages,
                interpolationContext>>
driverVars == <<engineNil, Loaders, LoadersIsNil, ShortCircuit, cfg, stageNum, loaderIndex, calls,
                result, loadCount>>
heldVars == <<returnedContext, returnedIsNil, returnedAlias>>
stringVars == <<inputText, interpolated>>
callerVars == <<apiCall, heldVars, stringVars>>
vars == <<pc, recordType, engineVars, graphVars, err, driverVars, callerVars>>

\* the driver variables while no driver is in use
NoDriver ==
    /\ engineNil = FALSE
    /\ Loaders = <<>>
    /\ LoadersIsNil = TRUE
    /\ ShortCircuit = FALSE
    /\ cfg = <<>>
    /\ stageNum = 0
    /\ loaderIndex = 0
    /\ calls = <<>>
    /\ result = NoError
    /\ loadCount = 0

\* no call made yet
NoCall == [op |-> "none", index |-> -1, kind |-> "none", value |-> <<>>]
NoResult == [text |-> <<>>, err |-> NoError]

\* the variables of the callers while nothing was called and nothing is held
NoCaller ==
    /\ apiCall = NoCall
    /\ returnedContext = EmptyMap
    /\ returnedIsNil = TRUE
    /\ returnedAlias = FALSE
    /\ inputText = <<>>
    /\ interpolated = NoResult

\* ------------------------------------- direct callers of the graph package
GraphFields == 0 .. (NumGraphFields - 1)
GraphFieldNames == FieldNamesOf(NumGraphFields)

\* the inputs a caller hands to BuildDependencyGraph: every field is a node,
\* every key of dependencies is a field, every provider is a field
RECURSIVE TotalLen(_, _)
TotalLen(deps, S) ==
    IF S = {} THEN 0
    ELSE LET f == CHOOSE x \in S : TRUE IN Len(deps[f]) + TotalLen(deps, S \ {f})

GraphDependencies ==
    {d \in UNION {[S -> SeqsUpTo(GraphVars, MaxRefs) \ {<<>>}] : S \in SUBSET GraphFields} :
        TotalLen(d, DOMAIN d) <= MaxRefs}

GraphProviders == UNION {[S -> GraphFields] : S \in SUBSET GraphVars}

GraphInit ==
    /\ pc = "graph_input"
    /\ recordType = <<>>
    /\ dependencies \in GraphDependencies
    /\ availableAsMap \in GraphProviders
    /\ hasInterpolation = FALSE
    /\ graph = NoGraph
    /\ cyclePath = NoCycle
    /\ dependencyStages = <<>>
    /\ err = NoError
    /\ interpolationContext = EmptyMap
    /\ NoDriver
    /\ NoCaller

CallBuildDependencyGraph ==
    /\ pc = "graph_input"
    /\ \E order \in Orders(DOMAIN dependencies) :
         LET r == BuildDependencyGraph(dependencies, availableAsMap, GraphFieldNames, order)
         IN  /\ graph' = r.graph
             /\ err' = r.err
             /\ pc' = IF r.err.kind = "none" THEN "graph_built" ELSE "graph_failed"
    /\ UNCHANGED <<callerVars, recordType, engineVars, cyclePath, driverVars>>

CallDetectCycle ==
    /\ pc = "graph_built"
    /\ \E order \in Orders(DOMAIN graph.nodes) : cyclePath' = DetectCycle(graph, order)
    /\ pc' = "graph_detected"
    /\ UNCHANGED <<callerVars, recordType, engineVars, graph, err, driverVars>>

\* TopologicalSort, up to the end of its defensive cycle check
CallTopologicalSort ==
    /\ pc = "graph_built"
    /\ \E order \in Orders(DOMAIN graph.nodes) :
         LET c == DetectCycle(graph, order)
         IN  IF ~c.isNil
             THEN /\ err' = CyclicDependencyError(c.path)
                  /\ pc' = "graph_sorted"
             ELSE /\ err' = NoError
                  /\ pc' = "graph_sorting"
    /\ UNCHANGED <<callerVars, recordType, engineVars, graphVars, driverVars>>

\* TopologicalSort, its level-by-level loop and its return
ReturnTopologicalSort ==
    /\ pc = "graph_sorting"
    /\ \E order \in Orders(DOMAIN graph.nodes) :
         LET r == KahnRounds(graph, order, <<>>, {}, InDegreeCopy(graph))
         IN  /\ dependencyStages' = r.stages
             /\ err' = r.err
    /\ pc' = "graph_sorted"
    /\ UNCHANGED <<callerVars, recordType, availableAsMap, dependencies, hasInterpolation,
                   interpolationContext, graphVars, driverVars>>

GraphNext ==
    \/ CallBuildDependencyGraph
    \/ CallDetectCycle
    \/ CallTopologicalSort
    \/ ReturnTopologicalSort

GraphSpec == GraphInit /\ [][GraphNext]_vars

\* ---------------------------------------------------- InterpolationEngine
\* texts of struct tags
Ref(name) == <<"$", "{">> \o name \o <<"}">>
ConfigKey(text) == <<"config:\"">> \o text \o <<"\"">>
SecretKey(text) == <<"secret:\"">> \o text \o <<"\"">>
AvailableAs(name) == <<"availableAs=">> \o name

Field(exported, tag, kind) == [exported |-> exported, Tag |-> tag, kind |-> kind]

\* the field declarations the analysed record types are made of
AnalyzeFieldCatalogue ==
    { Field(TRUE, SecretKey(<<"x">>), "string"),
      Field(TRUE, ConfigKey(AvailableAs(<<"A">>)), "string"),
      Field(TRUE, SecretKey(Ref(<<"A">>)) \o <<" ">> \o ConfigKey(AvailableAs(<<"B">>)), "string"),
      Field(TRUE, SecretKey(Ref(<<"B">>)) \o <<" ">>
                  \o ConfigKey(AvailableAs(<<"A">>) \o <<",", "x">>), "string"),
      Field(FALSE, SecretKey(Ref(<<"C">>)) \o <<" ">> \o ConfigKey(AvailableAs(<<"A">>)), "string"),
      Field(TRUE, SecretKey(Ref(<<"B">>) \o <<"x">> \o Ref(<<"C">>) \o Ref(<<"B">>)), "string"),
      Field(TRUE, ConfigKey(AvailableAs(<<"B">>) \o <<" ">> \o Ref(<<"B">>)), "string"),
      Field(TRUE, ConfigKey(<<"x">>), "string"),
      Field(FALSE, SecretKey(<<"$", "{", "A", "$", "}", "{", "x", "}">>), "string") }

NumFieldsOf(type) == Cardinality(DOMAIN type)
fieldNames(type) == FieldNamesOf(NumFieldsOf(type))

\* a declaration that replaces the list of declaring fields instead of extending it
Declare_Overwrite(st, name, i, fieldName) ==
    [st EXCEPT !.availableAsFields = MapPut(@, name, <<fieldName>>),
               !.availableAsMap = MapPut(@, name, i),
               !.hasInterpolation = TRUE]

\* a declaration that leaves hasInterpolation alone
Declare_NoFlag(st, name, i, fieldName) ==
    [st EXCEPT !.availableAsFields =
                   MapPut(@, name, IF name \in DOMAIN @ THEN Append(@[name], fieldName)
                                   ELSE <<fieldName>>),
               !.availableAsMap = MapPut(@, name, i)]

\* the three assignments that record a declaration of name by field i
Declare(st, name, i, fieldName) ==
    [st EXCEPT !.availableAsFields =
                   MapPut(@, name, IF name \in DOMAIN @ THEN Append(@[name], fieldName)
                                   ELSE <<fieldName>>),
               !.availableAsMap = MapPut(@, name, i),
               !.hasInterpolation = TRUE]

\* a first pass that never checks that the declaring field is exported
FirstPassField_NoExportCheck(field, i, fieldName, st, parsed) ==
    IF parsed.err.kind # "none"
    THEN [st EXCEPT !.err = TagParseError(fieldName, parsed.err.Issue)]
    ELSE Declare(st, parsed.name, i, fieldName)

\* a first pass that records the declaration before it checks the field
FirstPassField_DeclareFirst(field, i, fieldName, st, parsed) ==
    IF parsed.err.kind # "none"
    THEN [st EXCEPT !.err = TagParseError(fieldName, parsed.err.Issue)]
    ELSE IF ~field.exported
         THEN [Declare(st, parsed.name, i, fieldName) EXCEPT !.err =
                 InterpolationError(fieldName, "field with availableAs must be exported")]
         ELSE Declare(st, parsed.name, i, fieldName)

\* Analyze, first pass, the body of the loop for a field whose config tag is
\* not empty and parses to parsed
FirstPassField(field, i, fieldName, st, parsed) ==
    IF parsed.err.kind # "none"
    THEN [st EXCEPT !.err = TagParseError(fieldName, parsed.err.Issue)]
    ELSE IF ~field.exported
         THEN [st EXCEPT !.err =
                 InterpolationError(fieldName, "field with availableAs must be exported")]
         ELSE Declare(st, parsed.name, i, fieldName)

\* Analyze, first pass from field i on: collect the availableAs declarations;
\* st = [err, availableAsMap, availableAsFields, hasInterpolation]; the pass
\* returns at the first error
RECURSIVE FirstPass(_, _, _)
FirstPass(type, i, st) ==
    IF i >= NumFieldsOf(type) \/ st.err.kind # "none" THEN st
    ELSE IF TagGetConfig(type[i].Tag) = <<>> THEN FirstPass(type, i + 1, st)
         ELSE FirstPass(type, i + 1,
                        FirstPassField(type[i], i, fieldNames(type)[i], st,
                                       ParseConfigTag(TagGetConfig(type[i].Tag))))

\* the names the loop over availableAsFields can report: it returns at the
\* first name, in map order, that has more than one declaring field
DuplicatedNames(availableAsFields) ==
    {v \in DOMAIN availableAsFields : Len(availableAsFields[v]) > 1}

\* the seenVars filter: first occurrences only, in order
RECURSIVE Dedupe(_, _)
Dedupe(found, seenVars) ==
    IF found = <<>> THEN <<>>
    ELSE IF Head(found) \in seenVars THEN Dedupe(Tail(found), seenVars)
         ELSE <<Head(found)>> \o Dedupe(Tail(found), seenVars \cup {Head(found)})

\* Analyze, second pass, the body of the loop for a field with references
SecondPassField(i, fieldName, avail, st, allVars) ==
    IF HasUndefined(allVars, avail)
    THEN [st EXCEPT !.dependencies = MapPut(@, i, allVars),
                    !.hasInterpolation = TRUE,
                    !.err = UndefinedVariableError(fieldName, FirstUndefined(allVars, avail))]
    ELSE [st EXCEPT !.dependencies = MapPut(@, i, allVars),
                    !.hasInterpolation = TRUE]

\* Analyze, second pass from field i on: collect and validate the references;
\* st = [err, dependencies, hasInterpolation]; the pass returns at the first
\* error
RECURSIVE SecondPass(_, _, _, _)
SecondPass(type, avail, i, st) ==
    IF i >= NumFieldsOf(type) \/ st.err.kind # "none" THEN st
    ELSE IF FindVariableReferences(type[i].Tag) = <<>> THEN SecondPass(type, avail, i + 1, st)
         ELSE SecondPass(type, avail, i + 1,
                         SecondPassField(i, fieldNames(type)[i], avail, st,
                                         Dedupe(FindVariableReferences(type[i].Tag), {})))

\* how Analyze leaves the engine when it returns e
AnalyzeReturn(e, avail, deps, hasInterp, g, nextPc) ==
    /\ err' = e
    /\ availableAsMap' = avail
    /\ dependencies' = deps
    /\ hasInterpolation' = hasInterp
    /\ graph' = g
    /\ pc' = nextPc

\* Analyze, from its entry to the end of BuildDependencyGraph
AnalyzeScan ==
    /\ pc = "analyze"
    /\ \E p1 \in {FirstPass(recordType, 0,
                             [err |-> NoError, availableAsMap |-> availableAsMap,
                              availableAsFields |-> EmptyMap,
                              hasInterpolation |-> hasInterpolation])} :
         IF p1.err.kind # "none"
         THEN AnalyzeReturn(p1.err, p1.availableAsMap, dependencies,
                            p1.hasInterpolation, NoGraph, "analyze_failed")
         ELSE IF DuplicatedNames(p1.availableAsFields) # {}
         THEN \E v \in DuplicatedNames(p1.availableAsFields) :
                  AnalyzeReturn(DuplicateAvailableAsError(v, p1.availableAsFields[v]),
                                p1.availableAsMap, dependencies,
                                p1.hasInterpolation, NoGraph, "analyze_failed")
         ELSE \E p2 \in {SecondPass(recordType, p1.availableAsMap, 0,
                                     [err |-> NoError, dependencies |-> dependencies,
                                      hasInterpolation |-> p1.hasInterpolation])} :
              IF p2.err.kind # "none"
              THEN AnalyzeReturn(p2.err, p1.availableAsMap, p2.dependencies,
                                 p2.hasInterpolation, NoGraph, "analyze_failed")
              ELSE IF ~p2.hasInterpolation
              THEN AnalyzeReturn(NoError, p1.availableAsMap, p2.dependencies,
                                 p2.hasInterpolation, NoGraph, "analyzed")
              ELSE \E order \in Orders(DOMAIN p2.dependencies) :
                     \E b \in {BuildDependencyGraph(p2.dependencies, p1.availableAsMap,
                                                    fieldNames(recordType), order)} :
                       AnalyzeReturn(b.err, p1.availableAsMap, p2.dependencies,
                                     p2.hasInterpolation, b.graph,
                                     IF b.err.kind # "none" THEN "analyze_failed"
                                     ELSE "analyze_cycle")
    /\ UNCHANGED <<callerVars, recordType, dependencyStages, interpolationContext, cyclePath, driverVars>>

\* Analyze: graph.DetectCycle()
AnalyzeDetectCycle ==
    /\ pc = "analyze_cycle"
    /\ \E order \in Orders(DOMAIN graph.nodes) :
         LET c == DetectCycle(graph, order)
         IN  /\ cyclePath' = c
             /\ IF ~c.isNil
                THEN err' = CyclicDependencyError(c.path) /\ pc' = "analyze_failed"
                ELSE err' = NoError /\ pc' = "analyze_sort"
    /\ UNCHANGED <<callerVars, recordType, engineVars, graph, driverVars>>

\* Analyze: graph.TopologicalSort(), up to the end of its cycle check
AnalyzeTopologicalSort ==
    /\ pc = "analyze_sort"
    /\ \E order \in Orders(DOMAIN graph.nodes) :
         LET c == DetectCycle(graph, order)
         IN  IF ~c.isNil
             THEN err' = CyclicDependencyError(c.path) /\ pc' = "analyze_failed"
             ELSE err' = NoError /\ pc' = "analyze_rounds"
    /\ UNCHANGED <<callerVars, recordType, engineVars, graphVars, driverVars>>

\* Analyze: the rounds of TopologicalSort and e.dependencyStages = stages
AnalyzeStoreStages ==
    /\ pc = "analyze_rounds"
    /\ \E order \in Orders(DOMAIN graph.nodes) :
         LET r == KahnRounds(graph, order, <<>>, {}, InDegreeCopy(graph))
         IN  IF r.err.kind # "none"
             THEN /\ err' = r.err
                  /\ pc' = "analyze_failed"
                  /\ UNCHANGED dependencyStages
             ELSE /\ err' = NoError
                  /\ pc' = "analyzed"
                  /\ dependencyStages' = r.stages
    /\ UNCHANGED <<callerVars, recordType, availableAsMap, dependencies, hasInterpolation,
                   interpolationContext, graphVars, driverVars>>

RecordTypes(catalogue) == [0 .. (NumFields - 1) -> catalogue]

\* a caller of Analyze on a fresh engine (NewInterpolationEngine)
AnalyzeInit ==
    /\ pc = "analyze"
    /\ recordType \in RecordTypes(AnalyzeFieldCatalogue)
    /\ availableAsMap = EmptyMap
    /\ dependencies = EmptyMap
    /\ hasInterpolation = FALSE
    /\ dependencyStages = <<>>
    /\ graph = NoGraph
    /\ cyclePath = NoCycle
    /\ err = NoError
    /\ interpolationContext = EmptyMap
    /\ NoDriver
    /\ NoCaller

AnalyzeNext ==
    \/ AnalyzeScan
    \/ AnalyzeDetectCycle
    \/ AnalyzeTopologicalSort
    \/ AnalyzeStoreStages

AnalyzeSpec == AnalyzeInit /\ [][AnalyzeNext]_vars

\* ------------------------------------------------ InterpolatingChainLoader
\* values of fields: a text for a string field, an integer for an int field,
\* "nil" or "set" for a slice field
ZeroValue(kind) ==
    IF kind = "string" THEN <<>> ELSE IF kind = "int" THEN 0 ELSE "nil"

\* isZeroValue, for the kinds of the model
isZeroValue(kind, v) ==
    IF kind = "string" THEN v = <<>>
    ELSE IF kind = "int" THEN v = 0
    ELSE v = "nil"

\* an isStageFullyPopulated that does not skip the unexported fields
isStageFullyPopulated_AllFields(type, c) ==
    \A i \in DOMAIN type : ~isZeroValue(type[i].kind, c[i])

\* isStageFullyPopulated: no exported field of the record holds its zero value
isStageFullyPopulated(type, c) ==
    \A i \in DOMAIN type : type[i].exported => ~isZeroValue(type[i].kind, c[i])

Digits == <<"0", "1", "2", "3", "4", "5", "6", "7", "8", "9">>

\* fmt.Sprintf("%d", v)
RECURSIVE FormatNat(_)
FormatNat(n) ==
    IF n < 10 THEN <<Digits[n + 1]>>
    ELSE FormatNat(n \div 10) \o <<Digits[(n % 10) + 1]>>

FormatInt(n) == IF n < 0 THEN <<"-">> \o FormatNat(0 - n) ELSE FormatNat(n)

\* convertToString, for the kinds of the model
convertToString(kind, v) ==
    IF kind = "string" THEN [text |-> v, err |-> NoError]
    ELSE IF kind = "int" THEN [text |-> FormatInt(v), err |-> NoError]
    ELSE IF kind = "bool"
    THEN [text |-> IF v THEN <<"t", "r", "u", "e">> ELSE <<"f", "a", "l", "s", "e">>,
          err |-> NoError]
    ELSE [text |-> <<>>, err |-> Errorf("unsupported type for interpolation", kind)]

\* UpdateContext: the loop that looks up the variable of the field
VarNamesOf(avail, fieldIndex) == {name \in DOMAIN avail : avail[name] = fieldIndex}

\* an UpdateContext that converts the value before it looks the field up
UpdateContext_ConvertFirst(avail, ctx, fieldIndex, fieldName, kind, value) ==
    IF convertToString(kind, value).err.kind # "none"
    THEN [ctx |-> ctx,
          err |-> InterpolationError(fieldName, "failed to convert value to string")]
    ELSE IF VarNamesOf(avail, fieldIndex) = {} THEN [ctx |-> ctx, err |-> NoError]
    ELSE [ctx |-> MapPut(ctx, CHOOSE name \in VarNamesOf(avail, fieldIndex) : TRUE,
                         convertToString(kind, value).text),
          err |-> NoError]

\* an UpdateContext that stores the empty text of a failed conversion
UpdateContext_StoreOnError(avail, ctx, fieldIndex, fieldName, kind, value) ==
    IF VarNamesOf(avail, fieldIndex) = {} THEN [ctx |-> ctx, err |-> NoError]
    ELSE [ctx |-> MapPut(ctx, CHOOSE name \in VarNamesOf(avail, fieldIndex) : TRUE,
                         convertToString(kind, value).text),
          err |-> IF convertToString(kind, value).err.kind # "none"
                  THEN InterpolationError(fieldName, "failed to convert value to string")
                  ELSE NoError]

\* an UpdateContext that files the value under the name of the field
UpdateContext_FieldNameKey(avail, ctx, fieldIndex, fieldName, kind, value) ==
    IF VarNamesOf(avail, fieldIndex) = {} THEN [ctx |-> ctx, err |-> NoError]
    ELSE IF convertToString(kind, value).err.kind # "none"
         THEN [ctx |-> ctx,
               err |-> InterpolationError(fieldName, "failed to convert value to string")]
         ELSE [ctx |-> MapPut(ctx, <<fieldName>>, convertToString(kind, value).text),
               err |-> NoError]

\* an UpdateContext that starts a new map for the entry it writes
UpdateContext_NewMap(avail, ctx, fieldIndex, fieldName, kind, value) ==
    IF VarNamesOf(avail, fieldIndex) = {} THEN [ctx |-> ctx, err |-> NoError]
    ELSE IF convertToString(kind, value).err.kind # "none"
         THEN [ctx |-> ctx,
               err |-> InterpolationError(fieldName, "failed to convert value to string")]
         ELSE [ctx |-> MapPut(EmptyMap, CHOOSE name \in VarNamesOf(avail, fieldIndex) : TRUE,
                              convertToString(kind, value).text),
               err |-> NoError]

\* UpdateContext(fieldIndex, value) on context ctx; a field provides at most
\* one variable, since a config tag declares one name
UpdateContext(avail, ctx, fieldIndex, fieldName, kind, value) ==
    IF VarNamesOf(avail, fieldIndex) = {} THEN [ctx |-> ctx, err |-> NoError]
    ELSE IF convertToString(kind, value).err.kind # "none"
         THEN [ctx |-> ctx,
               err |-> InterpolationError(fieldName, "failed to convert value to string")]
         ELSE [ctx |-> MapPut(ctx, CHOOSE name \in VarNamesOf(avail, fieldIndex) : TRUE,
                              convertToString(kind, value).text),
               err |-> NoError]

\* InterpolateTags(fieldIndices), from position k of fieldIndices on: the tag
\* of each field is interpolated and the text is dropped; the first failure is
\* returned
RECURSIVE InterpolateTags(_, _, _, _)
InterpolateTags(type, fieldIndices, k, ctx) ==
    IF k > Len(fieldIndices) THEN NoError
    ELSE IF fieldIndices[k] < 0 \/ fieldIndices[k] >= NumFieldsOf(type)
         THEN Errorf("invalid field index", fieldIndices[k])
         ELSE IF InterpolateString(type[fieldIndices[k]].Tag, ctx).err.kind # "none"
              THEN InterpolationError(fieldNames(type)[fieldIndices[k]],
                                      "failed to interpolate tags")
              ELSE InterpolateTags(type, fieldIndices, k + 1, ctx)

\* events of the history
InterpolateEvent(stage) == [op |-> "interpolate", stage |-> stage, index |-> -1, value |-> <<>>]
LoadEvent(stage, i) == [op |-> "load", stage |-> stage, index |-> i, value |-> <<>>]
UpdateEvent(stage, f, v) == [op |-> "update", stage |-> stage, index |-> f, value |-> v]

\* a loop body that calls UpdateContext for the declaring fields only
UpdateStep_DeclaringOnly(acc, type, avail, c, f, stage) ==
    IF VarNamesOf(avail, f) = {} THEN acc
    ELSE [ctx |-> UpdateContext(avail, acc.ctx, f, fieldNames(type)[f], type[f].kind, c[f]).ctx,
          err |-> UpdateContext(avail, acc.ctx, f, fieldNames(type)[f], type[f].kind, c[f]).err,
          panicked |-> FALSE,
          calls |-> Append(acc.calls, UpdateEvent(stage, f, c[f]))]

\* a loop body that leaves a field that holds its zero value out of the context
UpdateStep_SkipZero(acc, type, avail, c, f, stage) ==
    IF c[f] = ZeroValue(type[f].kind)
    THEN [acc EXCEPT !.calls = Append(acc.calls, UpdateEvent(stage, f, c[f]))]
    ELSE [ctx |-> UpdateContext(avail, acc.ctx, f, fieldNames(type)[f], type[f].kind, c[f]).ctx,
          err |-> UpdateContext(avail, acc.ctx, f, fieldNames(type)[f], type[f].kind, c[f]).err,
          panicked |-> FALSE,
          calls |-> Append(acc.calls, UpdateEvent(stage, f, c[f]))]

\* updateContextForStage, the body of its loop for an exported field f
UpdateStep(acc, type, avail, c, f, stage) ==
    [ctx |-> UpdateContext(avail, acc.ctx, f, fieldNames(type)[f], type[f].kind, c[f]).ctx,
     err |-> UpdateContext(avail, acc.ctx, f, fieldNames(type)[f], type[f].kind, c[f]).err,
     panicked |-> FALSE,
     calls |-> Append(acc.calls, UpdateEvent(stage, f, c[f]))]

\* an updateContextForStage that returns without calling UpdateContext
updateContextForStage_Nothing(type, avail, c, stageFields, k, stage, acc) == acc

\* an updateContextForStage that goes over every field of the record, whatever
\* the stage
RECURSIVE updateContextForStage_WholeRecord(_, _, _, _, _, _, _)
updateContextForStage_WholeRecord(type, avail, c, stageFields, k, stage, acc) ==
    IF k > NumFieldsOf(type) \/ acc.err.kind # "none" \/ acc.panicked THEN acc
    ELSE IF ~type[k - 1].exported THEN [acc EXCEPT !.panicked = TRUE]
         ELSE updateContextForStage_WholeRecord(type, avail, c, stageFields, k + 1, stage,
                                                UpdateStep(acc, type, avail, c, k - 1, stage))

\* updateContextForStage from position k of stageFields on; fieldValue.Interface()
\* panics for an unexported field; acc = [ctx, err, panicked, calls]
RECURSIVE updateContextForStage(_, _, _, _, _, _, _)
updateContextForStage(type, avail, c, stageFields, k, stage, acc) ==
    IF k > Len(stageFields) \/ acc.err.kind # "none" \/ acc.panicked THEN acc
    ELSE IF ~type[stageFields[k]].exported THEN [acc EXCEPT !.panicked = TRUE]
         ELSE updateContextForStage(type, avail, c, stageFields, k + 1, stage,
                                    UpdateStep(acc, type, avail, c, stageFields[k], stage))

\* ------------------------------------------------------------ the loaders
\* A loader of the model (a mockLoader with a loadFunc) sets the exported
\* fields it knows to the value its source holds for the kind of the field,
\* then returns its error, if any: a loader fails always (fails), or when it
\* finds one of the fields of failsOn already set in the record it is handed.
LoaderValue(kind, source) ==
    IF kind = "string" THEN (IF source = 1 THEN <<"u">> ELSE <<"w", "x">>)
    ELSE IF kind = "int" THEN (IF source = 1 THEN 0 - 3 ELSE 42)
    ELSE "set"

NilLoader == [isNil |-> TRUE, fields |-> {}, source |-> 0, fails |-> FALSE, failsOn |-> {}]
Loader(fields, source, fails) ==
    [isNil |-> FALSE, fields |-> fields, source |-> source, fails |-> fails, failsOn |-> {}]
LoaderFailingOn(fields, source, on) ==
    [isNil |-> FALSE, fields |-> fields, source |-> source, fails |-> FALSE, failsOn |-> on]

AllFields == 0 .. 6

LoaderCatalogue ==
    { NilLoader,
      Loader({0}, 1, FALSE),
      Loader(AllFields, 2, FALSE),
      Loader({1}, 1, TRUE),
      LoaderFailingOn({0}, 1, {0}) }

LoaderFailure == [kind |-> "loader"]

\* the error loadFunc returns for record c
Fails(loader, type, c) ==
    \/ loader.fails
    \/ \E f \in loader.failsOn \cap DOMAIN type : ~isZeroValue(type[f].kind, c[f])

\* the fields loader.Load writes in a record of the given type
WrittenBy(loader, type) == {f \in DOMAIN type : f \in loader.fields /\ type[f].exported}

\* a loader that fills the zero-valued fields only
InvokeLoader_KeepNonZero(loader, type, c) ==
    [c |-> [f \in DOMAIN type |->
               IF f \in WrittenBy(loader, type) /\ isZeroValue(type[f].kind, c[f])
               THEN LoaderValue(type[f].kind, loader.source) ELSE c[f]],
     err |-> IF Fails(loader, type, c) THEN LoaderFailure ELSE NoError]

\* loader.Load(c)
InvokeLoader(loader, type, c) ==
    [c |-> [f \in DOMAIN type |->
               IF f \in WrittenBy(loader, type)
               THEN LoaderValue(type[f].kind, loader.source) ELSE c[f]],
     err |-> IF Fails(loader, type, c) THEN LoaderFailure ELSE NoError]

\* the field declarations the record types handed to Load are made of
LoadFieldCatalogue ==
    { Field(TRUE, SecretKey(<<"x">>), "string"),
      Field(FALSE, SecretKey(<<"x">>), "string"),
      Field(TRUE, ConfigKey(AvailableAs(<<"A">>)), "string"),
      Field(TRUE, SecretKey(Ref(<<"A">>)) \o <<" ">> \o ConfigKey(AvailableAs(<<"B">>)), "int"),
      Field(TRUE, SecretKey(Ref(<<"B">>) \o <<"x">> \o Ref(<<"A">>)), "slice") }

LoadRecordTypes == [0 .. (NumLoadFields - 1) -> LoadFieldCatalogue]

\* the records a caller hands to Load: a zero record, or one whose exported
\* fields are all set
ZeroRecord(type) == [f \in DOMAIN type |-> ZeroValue(type[f].kind)]
FullRecord(type) ==
    [f \in DOMAIN type |->
        IF type[f].exported THEN LoaderValue(type[f].kind, 1) ELSE ZeroValue(type[f].kind)]

\* ------------------------------------------------------------------- Load
LoadInit ==
    /\ pc = "idle"
    /\ recordType \in LoadRecordTypes
    /\ Loaders \in SeqsUpTo(LoaderCatalogue, NumLoaders)
    /\ LoadersIsNil \in {Loaders = <<>>, FALSE}
    /\ ShortCircuit \in BOOLEAN
    /\ engineNil = TRUE
    /\ availableAsMap = EmptyMap
    /\ dependencies = EmptyMap
    /\ hasInterpolation = FALSE
    /\ dependencyStages = <<>>
    /\ interpolationContext = EmptyMap
    /\ graph = NoGraph
    /\ cyclePath = NoCycle
    /\ err = NoError
    /\ cfg = ZeroRecord(recordType)
    /\ stageNum = 0
    /\ loaderIndex = 0
    /\ calls = <<>>
    /\ result = NoError
    /\ loadCount = 0
    /\ NoCaller

\* Load returns e
Return(e) ==
    /\ result' = e
    /\ pc' = "returned"

\* Load(c), up to the call of Analyze
LoadBegin ==
    /\ pc \in {"idle", "returned"}
    /\ loadCount < MaxLoads
    /\ loadCount' = loadCount + 1
    /\ \E c \in {ZeroRecord(recordType), FullRecord(recordType), cfg} : cfg' = c
    /\ calls' = <<>>
    /\ stageNum' = 0
    /\ loaderIndex' = 0
    /\ IF LoadersIsNil
       THEN /\ Return(Errorf("InterpolatingChainLoader.Loaders is nil", 0))
            /\ UNCHANGED engineNil
       ELSE /\ engineNil' = FALSE
            /\ result' = NoError
            /\ pc' = "analyze"
    /\ UNCHANGED <<callerVars, recordType, engineVars, graphVars, err, Loaders, LoadersIsNil, ShortCircuit>>

\* Load(c), from the return of Analyze to the entry of one of the two paths
LoadDispatch ==
    /\ pc \in {"analyzed", "analyze_failed"}
    /\ IF pc = "analyze_failed"
       THEN /\ Return(Wrap("interpolation analysis failed", 0, err))
            /\ UNCHANGED <<stageNum, loaderIndex>>
       ELSE IF ~hasInterpolation
       THEN /\ pc' = "fast_loop"
            /\ loaderIndex' = 0
            /\ UNCHANGED <<result, stageNum>>
       ELSE IF dependencyStages = <<>>
       THEN /\ Return(NoError)
            /\ UNCHANGED <<stageNum, loaderIndex>>
       ELSE /\ pc' = "stage_interpolate"
            /\ stageNum' = 0
            /\ UNCHANGED <<result, loaderIndex>>
    /\ UNCHANGED <<callerVars, recordType, engineVars, graphVars, err, engineNil, Loaders,
                   LoadersIsNil, ShortCircuit,
                   cfg, calls, loadCount>>

\* a loader loop that goes on to the next loader when a loader returns an error
LoaderIteration_IgnoreError(stage, done) ==
    IF loaderIndex >= Len(Loaders)
    THEN done /\ UNCHANGED <<cfg, calls, loaderIndex>>
    ELSE /\ cfg' = InvokeLoader(Loaders[loaderIndex + 1], recordType, cfg).c
         /\ calls' = Append(calls, LoadEvent(stage, loaderIndex))
         /\ loaderIndex' = loaderIndex + 1
         /\ UNCHANGED <<pc, result>>

\* a loader loop whose short-circuit break returns from Load
LoaderIteration_BreakReturns(stage, done) ==
    IF loaderIndex >= Len(Loaders)
    THEN done /\ UNCHANGED <<cfg, calls, loaderIndex>>
    ELSE IF Loaders[loaderIndex + 1].isNil
    THEN /\ Return(Errorf("loader at index is nil", loaderIndex))
         /\ UNCHANGED <<cfg, calls, loaderIndex>>
    ELSE IF ShortCircuit /\ isStageFullyPopulated(recordType, cfg)
    THEN Return(NoError) /\ UNCHANGED <<cfg, calls, loaderIndex>>
    ELSE \E r \in {InvokeLoader(Loaders[loaderIndex + 1], recordType, cfg)} :
           /\ cfg' = r.c
           /\ calls' = Append(calls, LoadEvent(stage, loaderIndex))
           /\ IF r.err.kind # "none"
              THEN /\ Return(Wrap("error in loader at index", loaderIndex, r.err))
                   /\ UNCHANGED loaderIndex
              ELSE /\ loaderIndex' = loaderIndex + 1
                   /\ UNCHANGED <<pc, result>>

\* a loader loop that steps over a nil entry
LoaderIteration_NilSkipped(stage, done) ==
    IF loaderIndex >= Len(Loaders)
    THEN done /\ UNCHANGED <<cfg, calls, loaderIndex>>
    ELSE IF Loaders[loaderIndex + 1].isNil
    THEN /\ loaderIndex' = loaderIndex + 1
         /\ UNCHANGED <<cfg, calls, pc, result>>
    ELSE IF ShortCircuit /\ isStageFullyPopulated(recordType, cfg)
    THEN done /\ UNCHANGED <<cfg, calls, loaderIndex>>
    ELSE \E r \in {InvokeLoader(Loaders[loaderIndex + 1], recordType, cfg)} :
           /\ cfg' = r.c
           /\ calls' = Append(calls, LoadEvent(stage, loaderIndex))
           /\ IF r.err.kind # "none"
              THEN /\ Return(Wrap("error in loader at index", loaderIndex, r.err))
                   /\ UNCHANGED loaderIndex
              ELSE /\ loaderIndex' = loaderIndex + 1
                   /\ UNCHANGED <<pc, result>>

\* one iteration of a loader loop at index loaderIndex: the nil check, the
\* short-circuit check, the call; done is where the loop goes when it ends or
\* breaks, stage is the stage the call is made in
LoaderIteration(stage, done) ==
    IF loaderIndex >= Len(Loaders)
    THEN done /\ UNCHANGED <<cfg, calls, loaderIndex>>
    ELSE IF Loaders[loaderIndex + 1].isNil
    THEN /\ Return(IF stage < 0 THEN Errorf("loader at index is nil", loaderIndex)
                   ELSE Wrap("failed to load stage", stage,
                             Errorf("loader at index is nil", loaderIndex)))
         /\ UNCHANGED <<cfg, calls, loaderIndex>>
    ELSE IF ShortCircuit /\ isStageFullyPopulated(recordType, cfg)
    THEN done /\ UNCHANGED <<cfg, calls, loaderIndex>>
    ELSE \E r \in {InvokeLoader(Loaders[loaderIndex + 1], recordType, cfg)} :
           /\ cfg' = r.c
           /\ calls' = Append(calls, LoadEvent(stage, loaderIndex))
           /\ IF r.err.kind # "none"
              THEN /\ Return(IF stage < 0
                             THEN Wrap("error in loader at index", loaderIndex, r.err)
                             ELSE Wrap("failed to load stage", stage,
                                       Wrap("error in loader at index", loaderIndex, r.err)))
                   /\ UNCHANGED loaderIndex
              ELSE /\ loaderIndex' = loaderIndex + 1
                   /\ UNCHANGED <<pc, result>>

\* loadWithoutInterpolation: one iteration of its loop, or its return
FastLoaderStep ==
    /\ pc = "fast_loop"
    /\ LoaderIteration(-1, Return(NoError))
    /\ UNCHANGED <<callerVars, recordType, engineVars, graphVars, err, engineNil, Loaders,
                   LoadersIsNil, ShortCircuit,
                   stageNum, loadCount>>

\* loadWithInterpolation: InterpolateTags(stageFields) for the stage in progress
StageInterpolate ==
    /\ pc = "stage_interpolate"
    /\ calls' = Append(calls, InterpolateEvent(stageNum))
    /\ \E e \in {InterpolateTags(recordType, dependencyStages[stageNum + 1], 1,
                                 interpolationContext)} :
         IF e.kind # "none"
         THEN /\ Return(Wrap("failed to interpolate tags for stage", stageNum, e))
              /\ UNCHANGED loaderIndex
         ELSE /\ pc' = "stage_loop"
              /\ loaderIndex' = 0
              /\ UNCHANGED result
    /\ UNCHANGED <<callerVars, recordType, engineVars, graphVars, err, engineNil, Loaders,
                   LoadersIsNil, ShortCircuit,
                   cfg, stageNum, loadCount>>

\* loadStage: one iteration of its loop, or its return
StageLoaderStep ==
    /\ pc = "stage_loop"
    /\ LoaderIteration(stageNum, pc' = "stage_update" /\ UNCHANGED result)
    /\ UNCHANGED <<callerVars, recordType, engineVars, graphVars, err, engineNil, Loaders,
                   LoadersIsNil, ShortCircuit,
                   stageNum, loadCount>>

\* loadWithInterpolation: updateContextForStage for the stage in progress,
\* then the next stage or the return
StageUpdateContext ==
    /\ pc = "stage_update"
    /\ \E r \in {updateContextForStage(recordType, availableAsMap, cfg,
                                       dependencyStages[stageNum + 1], 1, stageNum,
                                       [ctx |-> interpolationContext, err |-> NoError,
                                        panicked |-> FALSE, calls |-> calls])} :
         /\ interpolationContext' = r.ctx
         /\ calls' = r.calls
         /\ IF r.panicked
            THEN /\ pc' = "panicked"
                 /\ UNCHANGED <<result, stageNum>>
            ELSE IF r.err.kind # "none"
            THEN /\ Return(Wrap("failed to update context for stage", stageNum, r.err))
                 /\ UNCHANGED stageNum
            ELSE IF stageNum + 1 < Len(dependencyStages)
            THEN /\ stageNum' = stageNum + 1
                 /\ pc' = "stage_interpolate"
                 /\ UNCHANGED result
            ELSE /\ Return(NoError)
                 /\ UNCHANGED stageNum
    /\ UNCHANGED <<callerVars, recordType, availableAsMap, dependencies, hasInterpolation,
                   dependencyStages, graphVars, err, engineNil, Loaders, LoadersIsNil, ShortCircuit, cfg,
                   loaderIndex, loadCount>>

LoadNext ==
    \/ LoadBegin
    \/ AnalyzeScan
    \/ AnalyzeDetectCycle
    \/ AnalyzeTopologicalSort
    \/ AnalyzeStoreStages
    \/ LoadDispatch
    \/ FastLoaderStep
    \/ StageInterpolate
    \/ StageLoaderStep
    \/ StageUpdateContext

LoadSpec == LoadInit /\ [][LoadNext]_vars


\* ------------------------------------------- direct callers of the engine
\* the values a caller hands to UpdateContext, by dynamic type
ValueKinds == {"string", "int", "bool", "slice"}
ValuesOf(kind) ==
    IF kind = "string" THEN {<<"u">>}
    ELSE IF kind = "int" THEN {0 - 3}
    ELSE IF kind = "bool" THEN {FALSE}
    ELSE {"set"}

ApiCall(op, index, kind, value) == [op |-> op, index |-> index, kind |-> kind, value |-> value]

\* e.UpdateContext(f, v) on an analysed engine
EngineUpdateContext ==
    /\ pc = "analyzed"
    /\ \E f \in DOMAIN recordType, kind \in ValueKinds : \E v \in ValuesOf(kind) :
         \E r \in {UpdateContext(availableAsMap, interpolationContext, f,
                                 fieldNames(recordType)[f], kind, v)} :
           /\ interpolationContext' = r.ctx
           /\ err' = r.err
           /\ apiCall' = ApiCall("UpdateContext", f, kind, v)
    /\ UNCHANGED <<pc, recordType, availableAsMap, dependencies, hasInterpolation,
                   dependencyStages, graphVars, driverVars, heldVars, stringVars>>

\* e.InterpolateTags(stageFields) on an analysed engine, for one of its stages
EngineInterpolateTags ==
    /\ pc = "analyzed"
    /\ \E k \in 1 .. Len(dependencyStages) :
         /\ err' = InterpolateTags(recordType, dependencyStages[k], 1, interpolationContext)
         /\ apiCall' = ApiCall("InterpolateTags", k - 1, "none", <<>>)
    /\ UNCHANGED <<pc, recordType, engineVars, graphVars, driverVars, heldVars, stringVars>>

EngineInit ==
    /\ pc = "analyze"
    /\ recordType \in LoadRecordTypes
    /\ availableAsMap = EmptyMap
    /\ dependencies = EmptyMap
    /\ hasInterpolation = FALSE
    /\ dependencyStages = <<>>
    /\ graph = NoGraph
    /\ cyclePath = NoCycle
    /\ err = NoError
    /\ interpolationContext = EmptyMap
    /\ NoDriver
    /\ NoCaller

EngineNext ==
    \/ AnalyzeScan
    \/ AnalyzeDetectCycle
    \/ AnalyzeTopologicalSort
    \/ AnalyzeStoreStages
    \/ EngineUpdateContext
    \/ EngineInterpolateTags

EngineSpec == EngineInit /\ [][EngineNext]_vars

\* ------------------------------------------------ GetInterpolationContext
\* a GetInterpolationContext that returns the engine's own map
GetInterpolationContext_SameMap(isNil, ctx) ==
    [isNil |-> isNil, context |-> ctx, alias |-> ~isNil]

\* GetInterpolationContext: nil while the driver has no engine, else a new map
\* that holds the entries of the engine's context
GetInterpolationContext(isNil, ctx) ==
    [isNil |-> isNil,
     context |-> IF isNil THEN EmptyMap ELSE [k \in DOMAIN ctx |-> ctx[k]],
     alias |-> FALSE]

MapDelete(m, k) == [x \in (DOMAIN m) \ {k} |-> m[x]]

\* where the driver is when its caller, or a loader it calls, can call it
CallerRuns == pc \in {"idle", "returned", "fast_loop", "stage_loop"}

\* l.GetInterpolationContext()
CallGetInterpolationContext ==
    /\ CallerRuns
    /\ \E r \in {GetInterpolationContext(engineNil, interpolationContext)} :
         /\ returnedContext' = r.context
         /\ returnedIsNil' = r.isNil
         /\ returnedAlias' = r.alias
    /\ apiCall' = ApiCall("GetInterpolationContext", -1, "none", <<>>)
    /\ UNCHANGED <<pc, recordType, engineVars, graphVars, err, driverVars, stringVars>>

\* the holder of a returned map writes to it (context["A"] = "m") or deletes
\* from it (delete(context, "A")); a write to the engine's own map is a write
\* to the engine's context
WriteReturnedContext ==
    /\ CallerRuns
    /\ ~returnedIsNil
    /\ \E m \in {MapPut(returnedContext, <<"A">>, <<"m">>), MapDelete(returnedContext, <<"A">>)} :
         /\ returnedContext' = m
         /\ interpolationContext' = IF returnedAlias THEN m ELSE interpolationContext
    /\ apiCall' = ApiCall("write", -1, "none", <<>>)
    /\ UNCHANGED <<pc, recordType, availableAsMap, dependencies, hasInterpolation,
                   dependencyStages, graphVars, err, driverVars, returnedIsNil, returnedAlias,
                   stringVars>>

\* the loader lists of the drivers whose context is read
ContextLoaders ==
    { <<Loader(AllFields, 2, FALSE)>>,
      <<LoaderFailingOn({0}, 1, {0})>>,
      <<Loader({0}, 1, FALSE), NilLoader>> }

ContextInit ==
    /\ LoadInit
    /\ Loaders \in ContextLoaders
    /\ ~LoadersIsNil
    /\ ~ShortCircuit

ContextNext ==
    \/ LoadNext
    \/ CallGetInterpolationContext
    \/ WriteReturnedContext

ContextSpec == ContextInit /\ [][ContextNext]_vars

\* ------------------------------------------- callers of InterpolateString
MaxPieces == 4

\* the texts handed to InterpolateString are made of these pieces
TextPieces ==
    { Ref(<<"A">>), Ref(<<"B">>), <<"x">>, <<"$">>, <<"{">>, <<"A">>, <<"}">> }

RECURSIVE Concat(_)
Concat(pieces) == IF pieces = <<>> THEN <<>> ELSE Head(pieces) \o Concat(Tail(pieces))

StringTexts == {Concat(pieces) : pieces \in SeqsUpTo(TextPieces, MaxPieces)}

\* the contexts: some of the names A and B, with these values
ContextValues == {<<>>, <<"u">>, Ref(<<"B">>)}
StringContexts == UNION {[S -> ContextValues] : S \in SUBSET {<<"A">>, <<"B">>}}

StringInit ==
    /\ pc = "string"
    /\ inputText \in StringTexts
    /\ interpolationContext \in StringContexts
    /\ interpolated = NoResult
    /\ recordType = <<>>
    /\ availableAsMap = EmptyMap
    /\ dependencies = EmptyMap
    /\ hasInterpolation = FALSE
    /\ dependencyStages = <<>>
    /\ graph = NoGraph
    /\ cyclePath = NoCycle
    /\ err = NoError
    /\ NoDriver
    /\ apiCall = NoCall
    /\ returnedContext = EmptyMap
    /\ returnedIsNil = TRUE
    /\ returnedAlias = FALSE

\* InterpolateString(inputText, context)
CallInterpolateString ==
    /\ pc = "string"
    /\ interpolated' = InterpolateString(inputText, interpolationContext)
    /\ pc' = "string_done"
    /\ UNCHANGED <<recordType, engineVars, graphVars, err, driverVars, apiCall, heldVars,
                   inputText>>

StringNext == CallInterpolateString

StringSpec == StringInit /\ [][StringNext]_vars

\* --------------------- callers of the graph package and callers of Analyze
AnalysisInit == GraphInit \/ AnalyzeInit

AnalysisNext ==
    \/ GraphNext
    \/ AnalyzeNext

AnalysisSpec == AnalysisInit /\ [][AnalysisNext]_vars

\* TopologicalSort is a sequential function: once called it runs its loop to
\* the return
GraphFairSpec ==
    /\ GraphInit
    /\ [][GraphNext]_vars
    /\ WF_vars(ReturnTopologicalSort)
\* ------------------------------------------------- properties of the graph
\* index of the stage holding field f (0-based), -1 when f is in no stage
StageIndexOf(stages, f) ==
    IF \E k \in 1 .. Len(stages) : InSeq(f, stages[k])
    THEN (CHOOSE k \in 1 .. Len(stages) : InSeq(f, stages[k])) - 1
    ELSE -1

\* the providers of the variables field f references
ProvidersOf(f) ==
    IF f \in DOMAIN dependencies
    THEN {availableAsMap[dependencies[f][i]] : i \in 1 .. Len(dependencies[f])}
    ELSE {}

Sorted == pc = "graph_sorted" /\ err.kind = "none"

\* C1: in the stages TopologicalSort returns for an acyclic input, every field
\* sits in a stage of strictly greater index than each field that provides a
\* variable it references.
C1_StageOrder ==
    Sorted =>
        \A f \in GraphFields : \A p \in ProvidersOf(f) :
            /\ StageIndexOf(dependencyStages, f) >= 0
            /\ StageIndexOf(dependencyStages, p) >= 0
            /\ StageIndexOf(dependencyStages, f) > StageIndexOf(dependencyStages, p)

\* a sort that produced a chain of three stages
C1_Witness ==
    /\ Sorted
    /\ Len(dependencyStages) = 3
    /\ \E f \in GraphFields : \E p \in ProvidersOf(f) :
         StageIndexOf(dependencyStages, p) = 1 /\ StageIndexOf(dependencyStages, f) = 2

\* the nodes reachable from the frontier along one or more edges
RECURSIVE ReachFrom(_, _, _)
ReachFrom(g, frontier, seen) ==
    LET next == UNION {SeqToSet(g.edges[n]) : n \in frontier} \ seen
    IN  IF next = {} THEN seen ELSE ReachFrom(g, next, seen \cup next)

OnCycle(g, n) == n \in ReachFrom(g, {n}, {})
HasDirectedCycle(g) == \E n \in DOMAIN g.nodes : OnCycle(g, n)

Detected == pc = "graph_detected"

\* C2: DetectCycle returns a non-nil path exactly when the provider-to-dependent
\* graph has a directed cycle (self loops included), whatever the order in
\* which the nodes are taken as DFS roots.
C2_CycleIff ==
    Detected => (~cyclePath.isNil <=> HasDirectedCycle(graph))

\* a cycle was reported although some field is isolated from it: a self loop
\* next to a field with no edge at all
C2_Witness ==
    /\ Detected
    /\ ~cyclePath.isNil
    /\ \E f, h \in GraphFields :
         /\ f # h
         /\ InSeq(f, graph.edges[f])
         /\ graph.edges[h] = <<>>
         /\ graph.nodes[h].inDegree = 0

\* the cycle closed by the back edge: the DFS path from the first occurrence
\* of the in-progress node to the current node, then that node again
CycleOfBackEdge(g, path, back) ==
    LET cycleStart == FirstIndex(path, LAMBDA n : n = back)
    IN  Append(NamesOf(g, SubSeq(path, cycleStart, Len(path))), g.nodes[back].fieldName)

\* C3: the path DetectCycle returns is the cycle itself, from the in-progress
\* node's first occurrence on the DFS path through the current node and back to
\* that node, so that every name in it is a field on the cycle.
C3_PathIsCycle ==
    (Detected /\ ~cyclePath.isNil) =>
        /\ cyclePath.path = CycleOfBackEdge(graph, cyclePath.dfsPath, cyclePath.back)
        /\ \A i \in 1 .. Len(cyclePath.dfsPath) : OnCycle(graph, cyclePath.dfsPath[i])

\* ---------------------------------------------- properties of the analysis
AnalyzedFields == DOMAIN recordType

\* what the tags of the record type say, field by field
ConfigTagOf(f) == TagGetConfig(recordType[f].Tag)
TagFault(f) == ConfigTagOf(f) # <<>> /\ ParseConfigTag(ConfigTagOf(f)).err.kind # "none"
HasDeclaration(f) == ConfigTagOf(f) # <<>> /\ ParseConfigTag(ConfigTagOf(f)).err.kind = "none"
DeclaredBy(f) == ParseConfigTag(ConfigTagOf(f)).name
Declarers(v) == {f \in AnalyzedFields : HasDeclaration(f) /\ DeclaredBy(f) = v}
ReferencesOf(f) == FindVariableReferences(recordType[f].Tag)
TagNames == UNION {SeqToSet(ReferencesOf(f)) : f \in AnalyzedFields}
               \cup {DeclaredBy(f) : f \in {g \in AnalyzedFields : HasDeclaration(g)}}

IsDangling(v) == Declarers(v) = {}
HasDangling(f) == \E v \in SeqToSet(ReferencesOf(f)) : IsDangling(v)

\* the faults a record type can have
AnyTagFault == \E f \in AnalyzedFields : TagFault(f)
AccessFault == \E f \in AnalyzedFields : HasDeclaration(f) /\ ~recordType[f].exported
DuplicateFault == \E v \in TagNames : Cardinality(Declarers(v)) > 1
DanglingFault == \E f \in AnalyzedFields : HasDangling(f)

\* the fields that depend on p: they reference a name p declares
DependentsOf(p) ==
    {f \in AnalyzedFields : HasDeclaration(p) /\ InSeq(DeclaredBy(p), ReferencesOf(f))}

RECURSIVE DependentsClosure(_, _)
DependentsClosure(frontier, seen) ==
    IF UNION {DependentsOf(p) : p \in frontier} \subseteq seen THEN seen
    ELSE DependentsClosure(UNION {DependentsOf(p) : p \in frontier} \ seen,
                           seen \cup UNION {DependentsOf(p) : p \in frontier})

CycleFault == \E f \in AnalyzedFields : f \in DependentsClosure({f}, {})

AnalyzeDone == pc \in {"analyzed", "analyze_failed"}

\* the error kind the precedence order asks for
ExpectedKind ==
    IF AccessFault THEN "interpolation"
    ELSE IF DuplicateFault THEN "duplicate"
    ELSE IF DanglingFault THEN "undefined"
    ELSE IF CycleFault THEN "cycle"
    ELSE "none"

\* C4: Analyze reports the faults of a record in the precedence non-exported
\* declaration, duplicate declaration, dangling reference, cycle, sort failure:
\* the error is the one of the highest fault present (when no config tag is
\* malformed), and no error is reported while a fault of higher precedence is
\* present.
C4_Precedence ==
    AnalyzeDone =>
        /\ ~AnyTagFault => err.kind = ExpectedKind
        /\ err.kind = "duplicate" => ~AccessFault
        /\ err.kind = "undefined" => ~AccessFault /\ ~DuplicateFault
        /\ err.kind = "cycle" => ~AccessFault /\ ~DuplicateFault /\ ~DanglingFault
        /\ err.kind = "sort" => ~AccessFault /\ ~DuplicateFault /\ ~DanglingFault /\ ~CycleFault

\* a record with all four faults at once, reported as the accessibility error
C4_Witness ==
    /\ AnalyzeDone
    /\ ~AnyTagFault
    /\ AccessFault /\ DuplicateFault /\ DanglingFault /\ CycleFault
    /\ err.kind = "interpolation"

NamesOfFields(S) == {AllFieldNames[f + 1] : f \in S}

\* the error is the duplicate-declaration error of name v with exactly the
\* fields declaring v
IsDuplicateErrorFor(v) ==
    /\ err.kind = "duplicate"
    /\ err.VariableName = v
    /\ SeqToSet(err.Fields) = NamesOfFields(Declarers(v))
    /\ Len(err.Fields) = Cardinality(Declarers(v))

NoEarlierFault == ~AnyTagFault /\ ~AccessFault
Duplicated == {v \in TagNames : Cardinality(Declarers(v)) > 1}

\* C5 as stated: every name declared by two or more fields is the name of the
\* duplicate-declaration error Analyze returns.
C5_Original ==
    (AnalyzeDone /\ NoEarlierFault) => \A v \in Duplicated : IsDuplicateErrorFor(v)

\* C5: when some name is declared by two or more fields (and no config tag is
\* malformed and no declaration sits on a non-exported field), Analyze fails
\* with the duplicate-declaration error of one duplicated name, whose field
\* list is exactly the fields declaring that name.
C5_DuplicateReported ==
    (AnalyzeDone /\ NoEarlierFault /\ Duplicated # {}) =>
        \E v \in Duplicated : IsDuplicateErrorFor(v)

\* two names are duplicated and one of them is reported
C5_Witness ==
    /\ AnalyzeDone /\ NoEarlierFault
    /\ Cardinality(Duplicated) = 2
    /\ \E v \in Duplicated : IsDuplicateErrorFor(v)

FirstDanglingField == CHOOSE f \in AnalyzedFields :
    HasDangling(f) /\ \A g \in AnalyzedFields : g < f => ~HasDangling(g)

LeftmostDangling(f) ==
    ReferencesOf(f)[CHOOSE k \in 1 .. Len(ReferencesOf(f)) :
                       /\ IsDangling(ReferencesOf(f)[k])
                       /\ \A j \in 1 .. (k - 1) : ~IsDangling(ReferencesOf(f)[j])]

\* C6: with no fault of higher precedence, a reference to an undeclared name
\* makes Analyze fail with the dangling-reference error of the lowest-index
\* field that has one and of the leftmost undeclared name in its tag.
C6_FirstDangling ==
    (AnalyzeDone /\ NoEarlierFault /\ ~DuplicateFault /\ DanglingFault) =>
        /\ err.kind = "undefined"
        /\ err.FieldName = AllFieldNames[FirstDanglingField + 1]
        /\ err.VariableName = LeftmostDangling(FirstDanglingField)

\* the reported name is not the first reference of its field, and a later
\* field has a dangling reference too
C6_Witness ==
    /\ AnalyzeDone /\ NoEarlierFault /\ ~DuplicateFault /\ DanglingFault
    /\ err.kind = "undefined"
    /\ ReferencesOf(FirstDanglingField)[1] # err.VariableName
    /\ \E g \in AnalyzedFields : g > FirstDanglingField /\ HasDangling(g)

CarriesInterpolation ==
    \E f \in AnalyzedFields : HasDeclaration(f) \/ ReferencesOf(f) # <<>>

\* C7 as stated: after any Analyze, failed ones included.
C7_Original ==
    AnalyzeDone =>
        /\ hasInterpolation <=> CarriesInterpolation
        /\ ~hasInterpolation => (dependencyStages = <<>> /\ ~graph.built)

\* C7: after a successful Analyze, HasInterpolation() is true exactly when some
\* field carries a declaration or a reference; when it is false the stage list
\* is empty and no dependency graph was built.
C7_HasInterpolation ==
    pc = "analyzed" =>
        /\ hasInterpolation <=> CarriesInterpolation
        /\ ~hasInterpolation => (dependencyStages = <<>> /\ ~graph.built)

\* no interpolation is found in a record whose tags hold a malformed token
C7_Witness ==
    /\ pc = "analyzed"
    /\ ~hasInterpolation
    /\ \E f \in AnalyzedFields : InSeq("$", recordType[f].Tag)

\* -------------------------------------------------- properties of the driver
\* the calls of the history without the values passed
Shape(events) ==
    [k \in 1 .. Len(events) |->
        [op |-> events[k].op, stage |-> events[k].stage, index |-> events[k].index]]

Call(op, stage, index) == [op |-> op, stage |-> stage, index |-> index]

IsPrefix(s, t) == Len(s) <= Len(t) /\ \A k \in 1 .. Len(s) : s[k] = t[k]

Count(events, e) == Cardinality({k \in 1 .. Len(events) : events[k] = e})

LoaderIndices == 0 .. (Len(Loaders) - 1)

\* the loaders of the list that write field f, by index
WritersOf(f) == {i \in LoaderIndices : f \in Loaders[i + 1].fields /\ recordType[f].exported}
LastWriterOf(f) == CHOOSE i \in WritersOf(f) : \A j \in WritersOf(f) : j <= i

\* one call per loader, in list order
EveryLoaderOnce == [k \in 1 .. Len(Loaders) |-> Call("load", -1, k - 1)]

\* Load has returned nil from the fast path with short-circuit off
FastPathDone ==
    /\ pc = "returned"
    /\ result.kind = "none"
    /\ ~LoadersIsNil
    /\ ~hasInterpolation
    /\ ~ShortCircuit

\* C8: on the fast path with short-circuit off and no loader error, Load calls
\* every loader exactly once, in list order, and every field written by some
\* loader is left with the value written by the last loader that writes it.
C8_FastPath ==
    FastPathDone =>
        /\ Shape(calls) = EveryLoaderOnce
        /\ \A f \in DOMAIN recordType :
             WritersOf(f) # {} =>
                 cfg[f] = LoaderValue(recordType[f].kind, Loaders[LastWriterOf(f) + 1].source)

\* two loaders wrote different values to one field and the second one's stayed
C8_Witness ==
    /\ FastPathDone
    /\ Len(Loaders) = 2
    /\ \E f \in DOMAIN recordType :
         /\ WritersOf(f) = {0, 1}
         /\ Loaders[1].source # Loaders[2].source
         /\ cfg[f] = LoaderValue(recordType[f].kind, Loaders[2].source)

\* the step calls a loader
LoaderCalled ==
    /\ Len(calls') = Len(calls) + 1
    /\ calls'[Len(calls')].op = "load"

\* no exported field of the record holds its zero value
AllExportedSet ==
    \A f \in DOMAIN recordType :
        recordType[f].exported => cfg[f] # ZeroValue(recordType[f].kind)

InLoaderLoop == pc \in {"fast_loop", "stage_loop"}

\* C9: with short-circuit on, a loader is called only from a record in which
\* some exported field holds its zero value, and a loader loop that finds the
\* record fully populated ends at once, calling no further loader.
C9_ShortCircuit ==
    [][ShortCircuit =>
          /\ LoaderCalled => ~AllExportedSet
          /\ (InLoaderLoop /\ AllExportedSet) => (~LoaderCalled /\ pc' # pc)]_vars

\* a load in which the first loader filled the record and the second loader,
\* although present, was not called
C9_Witness ==
    /\ pc = "returned"
    /\ result.kind = "none"
    /\ ShortCircuit
    /\ ~hasInterpolation
    /\ Len(Loaders) = 2
    /\ ~Loaders[2].isNil
    /\ Shape(calls) = <<Call("load", -1, 0)>>
    /\ AllExportedSet

\* the calls of stage k (0-based) of a staged load: InterpolateTags, every
\* loader in list order, UpdateContext for every field of the stage
RECURSIVE StageCalls(_, _)
StageCalls(stages, k) ==
    IF k >= Len(stages) THEN <<>>
    ELSE <<Call("interpolate", k, -1)>>
         \o [i \in 1 .. Len(Loaders) |-> Call("load", k, i - 1)]
         \o [j \in 1 .. Len(stages[k + 1]) |-> Call("update", k, stages[k + 1][j])]
         \o StageCalls(stages, k + 1)

OnStagedPath == pc \in {"stage_interpolate", "stage_loop", "stage_update"}

StagedDone ==
    /\ pc = "returned"
    /\ result.kind = "none"
    /\ ~LoadersIsNil
    /\ hasInterpolation
    /\ ~ShortCircuit

\* updateContextForStage has just returned nil for stage s
JustUpdated(s) ==
    \/ pc = "stage_interpolate" /\ stageNum = s + 1
    \/ /\ pc = "returned"
       /\ result.kind = "none"
       /\ hasInterpolation
       /\ calls # <<>>
       /\ s = Len(dependencyStages) - 1

\* C10: on the staged path with short-circuit off the calls of a load are, stage
\* after stage, InterpolateTags for the stage, every loader in list order, then
\* UpdateContext for every field of the stage with the value the field holds
\* when the stage's loaders have run; a successful load makes all of these
\* calls, each loader once per stage.
C10_StageSequence ==
    /\ (OnStagedPath /\ ~ShortCircuit) =>
           IsPrefix(Shape(calls), StageCalls(dependencyStages, 0))
    /\ \A k \in 1 .. Len(calls) :
           (calls[k].op = "update" /\ JustUpdated(calls[k].stage)) =>
               calls[k].value = cfg[calls[k].index]
    /\ StagedDone =>
           /\ Shape(calls) = StageCalls(dependencyStages, 0)
           /\ \A s \in 0 .. (Len(dependencyStages) - 1) : \A i \in LoaderIndices :
                  Count(Shape(calls), Call("load", s, i)) = 1

\* a successful load of two loaders over two or more stages, whose first stage
\* updated a field one of the loaders had written
C10_Witness ==
    /\ StagedDone
    /\ Len(dependencyStages) >= 2
    /\ Len(Loaders) = 2
    /\ \E k \in 1 .. Len(calls) :
         /\ calls[k].op = "update"
         /\ calls[k].stage = 0
         /\ WritersOf(calls[k].index) # {}
         /\ calls[k].value # ZeroValue(recordType[calls[k].index].kind)


\* --------------------------------------------- the order of the stages
Positions == 1 .. Len(calls)

\* before position j of the history the loader pass of stage k is over and
\* UpdateContext has been called for every field of stage k
StageCompleteBefore(k, j) ==
    /\ \A f \in SeqToSet(dependencyStages[k + 1]) :
           \E u \in 1 .. (j - 1) : Shape(calls)[u] = Call("update", k, f)
    /\ ~ShortCircuit =>
           \A i \in LoaderIndices :
               \E u \in 1 .. (j - 1) : Shape(calls)[u] = Call("load", k, i)
    /\ \A u \in Positions : calls[u].stage = k => u < j

LoaderFailed ==
    /\ LoaderCalled
    /\ Fails(Loaders[loaderIndex + 1], recordType, cfg)

\* the stage of the last call of the history (-1 on the fast path)
LastStage(events) == events[Len(events)].stage

\* the variables declared by the fields of the stages before stage k (0-based)
VarsOfStagesBefore(k) ==
    {name \in DOMAIN availableAsMap :
        \E s \in 1 .. k : InSeq(availableAsMap[name], dependencyStages[s])}

\* Load returned the error of a loader
LoaderErrorReturned ==
    /\ pc = "returned"
    /\ result.kind = "wrapped"
    /\ \/ result.Message = "error in loader at index"
       \/ /\ result.Message = "failed to load stage"
          /\ result.Unwrap.kind = "wrapped"

\* C12: when a loader returns an error, Load returns an error in that step: the
\* failing call is the last call of the load, no UpdateContext call is made for
\* the failing stage, no later stage is started, and the context is left as
\* the stages completed before the failure wrote it (on a fresh driver it
\* holds the variables of those stages and no others).
C12_LoaderErrorAborts ==
    /\ [](LoaderErrorReturned =>
            /\ calls # <<>>
            /\ calls[Len(calls)].op = "load"
            /\ calls[Len(calls)].index = loaderIndex
            /\ \A u \in Positions :
                   /\ calls[u].stage <= LastStage(calls)
                   /\ calls[u].op = "update" => calls[u].stage < LastStage(calls)
            /\ loadCount = 1 =>
                   DOMAIN interpolationContext = VarsOfStagesBefore(LastStage(calls)))
    /\ [][LoaderFailed =>
            /\ pc' = "returned"
            /\ result'.kind = "wrapped"
            /\ interpolationContext' = interpolationContext]_vars

\* a loader failed in the second stage, after the first stage had written a
\* variable to the context
C12_Witness ==
    /\ LoaderErrorReturned
    /\ calls # <<>>
    /\ LastStage(calls) = 1
    /\ loadCount = 1
    /\ interpolationContext # EmptyMap

\* the error at the end of the Unwrap chain of e
RECURSIVE Cause(_)
Cause(e) == IF e.kind = "wrapped" THEN Cause(e.Unwrap) ELSE e

\* the number of wrapping layers of e
RECURSIVE Layers(_)
Layers(e) == IF e.kind = "wrapped" THEN 1 + Layers(e.Unwrap) ELSE 0

WrittenInThisLoad(name) ==
    \E u \in Positions :
        /\ calls[u].op = "update"
        /\ HasDeclaration(calls[u].index)
        /\ DeclaredBy(calls[u].index) = name
        /\ convertToString(recordType[calls[u].index].kind, calls[u].value).err.kind = "none"

\* C17: the context is per-load: while a Load runs and after it has returned,
\* the context holds no entry but those the UpdateContext calls of this Load
\* wrote, also when the driver was used for a Load before.
C17_ContextPerLoad ==
    (loadCount >= 1 /\ ~engineNil) =>
        \A name \in DOMAIN interpolationContext : WrittenInThisLoad(name)

\* ------------------------------------------- properties of UpdateContext
\* the step is a call of UpdateContext by a direct caller of the engine
UpdateContextStep ==
    /\ pc = "analyzed"
    /\ pc' = "analyzed"
    /\ apiCall'.op = "UpdateContext"

\* the text of the values of the model
TextOf(kind, v) ==
    IF kind = "string" THEN v
    ELSE IF kind = "int" THEN (IF v = 42 THEN <<"4", "2">> ELSE <<"-", "3">>)
    ELSE IF v THEN <<"t", "r", "u", "e">> ELSE <<"f", "a", "l", "s", "e">>

SupportedKinds == {"string", "int", "bool"}

\* C14: UpdateContext for a field that carries no declaration returns no error
\* and leaves the context as it was, whatever value it is handed.
C14_NoDeclarationNoChange ==
    [][(UpdateContextStep /\ ~HasDeclaration(apiCall'.index)) =>
           /\ err'.kind = "none"
           /\ interpolationContext' = interpolationContext]_vars

\* a value of an unsupported type handed for a field without a declaration,
\* while the context holds an entry
C14_Witness ==
    /\ pc = "analyzed"
    /\ apiCall.op = "UpdateContext"
    /\ ~HasDeclaration(apiCall.index)
    /\ apiCall.kind = "slice"
    /\ err.kind = "none"
    /\ interpolationContext # EmptyMap

\* C15: UpdateContext for a field that declares a variable either returns no
\* error and sets the entry of that variable, and no other, to the text of the
\* value, or - for a value of an unsupported type - returns an error that
\* names the field and leaves every entry of the context as it was.
C15_DeclaredUpdate ==
    [][(UpdateContextStep /\ HasDeclaration(apiCall'.index)) =>
           IF apiCall'.kind \in SupportedKinds
           THEN /\ err'.kind = "none"
                /\ DOMAIN interpolationContext' =
                       DOMAIN interpolationContext \cup {DeclaredBy(apiCall'.index)}
                /\ \A name \in DOMAIN interpolationContext' :
                       interpolationContext'[name] =
                           IF name = DeclaredBy(apiCall'.index)
                           THEN TextOf(apiCall'.kind, apiCall'.value)
                           ELSE interpolationContext[name]
           ELSE /\ err'.kind = "interpolation"
                /\ err'.FieldName = fieldNames(recordType)[apiCall'.index]
                /\ interpolationContext' = interpolationContext]_vars

\* a value of an unsupported type handed for a declaring field whose variable
\* has an entry, which stays
C15_Witness ==
    /\ pc = "analyzed"
    /\ apiCall.op = "UpdateContext"
    /\ HasDeclaration(apiCall.index)
    /\ apiCall.kind = "slice"
    /\ err.kind = "interpolation"
    /\ DeclaredBy(apiCall.index) \in DOMAIN interpolationContext
    /\ interpolationContext[DeclaredBy(apiCall.index)] = <<"-", "3">>

\* ------------------------------------- properties of the engine's context
\* the step creates the engine of the driver
EngineCreated == engineNil /\ ~engineNil'

\* the step is the call of updateContextForStage, the only caller of UpdateContext
UpdateContextCalled == pc = "stage_update"

\* C16: the context is empty when the engine is created, is changed by no step
\* other than the UpdateContext calls, and never loses a key: no step of
\* Analyze, InterpolateTags, a loader pass or GetInterpolationContext - nor of
\* UpdateContext itself - removes one.
C16_ContextGrows ==
    /\ [](engineNil => interpolationContext = EmptyMap)
    /\ [][/\ EngineCreated => interpolationContext' = EmptyMap
          /\ interpolationContext' # interpolationContext => UpdateContextCalled
          /\ DOMAIN interpolationContext \subseteq DOMAIN interpolationContext']_vars

\* the context holds two variables, written by two stages, while
\* GetInterpolationContext has been called and a later load is running
C16_Witness ==
    /\ Cardinality(DOMAIN interpolationContext) = 2
    /\ ~returnedIsNil
    /\ loadCount = 2
    /\ pc = "stage_loop"

\* the step is a call of GetInterpolationContext
GetStep ==
    /\ apiCall'.op = "GetInterpolationContext"
    /\ UNCHANGED <<pc, engineVars, driverVars>>

\* the step is a write to the map GetInterpolationContext returned
WriteStep ==
    /\ apiCall'.op = "write"
    /\ returnedContext' # returnedContext

\* C18: GetInterpolationContext returns nil as long as no Load has created the
\* engine, and afterwards a map with the entries of the engine's context that
\* is a copy: no write to the returned map changes the engine's context, hence
\* none changes what a later call returns.
C18_ReturnsCopy ==
    [][/\ GetStep =>
             /\ returnedIsNil' = (loadCount = 0)
             /\ ~returnedIsNil' => returnedContext' = interpolationContext
       /\ WriteStep => interpolationContext' = interpolationContext]_vars

\* the holder of the returned map has overwritten an entry of it, and the
\* engine's context still holds the value UpdateContext wrote
C18_Witness ==
    /\ ~returnedIsNil
    /\ apiCall.op = "write"
    /\ <<"A">> \in DOMAIN interpolationContext
    /\ <<"A">> \in DOMAIN returnedContext
    /\ returnedContext[<<"A">>] = <<"m">>
    /\ interpolationContext[<<"A">>] # <<"m">>

\* --------------------------------------- properties of InterpolateString
\* s holds, from position i on, the token ${NAME} with a name of n characters
TokenAt(s, i, n) ==
    /\ n >= 1
    /\ i + n + 2 <= Len(s)
    /\ s[i] = "$"
    /\ s[i + 1] = "{"
    /\ \A k \in 1 .. n : s[i + 1 + k] \in NameChars
    /\ s[i + n + 2] = "}"

\* the length of the name of the token that starts at position i, 0 for none
NameLenAt(s, i) ==
    IF \E n \in 1 .. Len(s) : TokenAt(s, i, n)
    THEN CHOOSE n \in 1 .. Len(s) : TokenAt(s, i, n)
    ELSE 0

NameAt(s, i) == SubSeq(s, i + 2, i + 1 + NameLenAt(s, i))

HasToken(s) == \E i \in 1 .. Len(s) : NameLenAt(s, i) > 0

\* the names of the tokens of s that have no entry in ctx, one per occurrence,
\* left to right; tokens cannot overlap, so every position is looked at
RECURSIVE MissingFrom(_, _, _)
MissingFrom(s, i, ctx) ==
    IF i > Len(s) THEN <<>>
    ELSE IF NameLenAt(s, i) > 0 /\ NameAt(s, i) \notin DOMAIN ctx
         THEN <<NameAt(s, i)>> \o MissingFrom(s, i + 1, ctx)
         ELSE MissingFrom(s, i + 1, ctx)

\* s from position i on with every token replaced by the value of its name
RECURSIVE Substituted(_, _, _)
Substituted(s, i, ctx) ==
    IF i > Len(s) THEN <<>>
    ELSE IF NameLenAt(s, i) > 0
         THEN ctx[NameAt(s, i)] \o Substituted(s, i + NameLenAt(s, i) + 3, ctx)
         ELSE <<s[i]>> \o Substituted(s, i + 1, ctx)

StringDone == pc = "string_done"

\* C19: InterpolateString does not stop at the first missing variable: when
\* some referenced name has no entry in the context it returns an error that
\* lists every missing occurrence, left to right, and returns no text; when
\* none is missing it returns the text with every reference replaced by the
\* value of its name.
C19_AllMissingReported ==
    StringDone =>
        IF MissingFrom(inputText, 1, interpolationContext) # <<>>
        THEN /\ interpolated.err.kind = "errorf"
             /\ interpolated.err.Arg = MissingFrom(inputText, 1, interpolationContext)
             /\ interpolated.text = <<>>
        ELSE /\ interpolated.err.kind = "none"
             /\ interpolated.text = Substituted(inputText, 1, interpolationContext)

\* a text with a reference the context resolves and two references it does
\* not: both are reported
C19_Witness ==
    /\ StringDone
    /\ interpolated.err.kind = "errorf"
    /\ Len(interpolated.err.Arg) = 2
    /\ \E i \in 1 .. Len(inputText) :
         NameLenAt(inputText, i) > 0 /\ NameAt(inputText, i) \in DOMAIN interpolationContext

\* C20: for any context, InterpolateString of a text that holds no well-formed
\* ${NAME} token returns the text as it is, and no error.
C20_NoTokenUnchanged ==
    (StringDone /\ ~HasToken(inputText)) =>
        /\ interpolated.err.kind = "none"
        /\ interpolated.text = inputText

\* a text that starts like a token but holds none, and a context with entries
C20_Witness ==
    /\ StringDone
    /\ ~HasToken(inputText)
    /\ Len(inputText) >= 4
    /\ inputText[1] = "$"
    /\ inputText[2] = "{"
    /\ inputText[3] = "A"
    /\ <<"A">> \in DOMAIN interpolationContext
    /\ interpolated.text = inputText

\* ------------------------------------------------ failures of the analysis
\* some field of the input of BuildDependencyGraph references name, which no
\* field provides, and the error names that field and that name
NamesDanglingReference(e) ==
    \E f \in DOMAIN dependencies :
        /\ e.FieldName = GraphFieldNames[f]
        /\ InSeq(e.VariableName, dependencies[f])
        /\ e.VariableName \notin DOMAIN availableAsMap

\* C21: an analysis-time error aborts Analyze at the first fault: after a failed
\* Analyze on a fresh engine the stage list is empty, an error of the first
\* pass leaves no reference recorded, and no graph is built unless the error
\* is the cycle; BuildDependencyGraph handed a reference to an undeclared name
\* returns no graph, only the error that names a referencing field and the
\* name it misses, and returns a graph otherwise.
C21_FailFast ==
    /\ pc = "analyze_failed" =>
           /\ err.kind # "none"
           /\ dependencyStages = <<>>
           /\ err.kind \in {"tagparse", "interpolation", "duplicate"} =>
                  dependencies = EmptyMap
           /\ err.kind # "cycle" => graph = NoGraph
    /\ pc = "graph_failed" =>
           /\ graph = NoGraph
           /\ err.kind = "undefined"
           /\ NamesDanglingReference(err)
    /\ pc = "graph_built" =>
           /\ graph.built
           /\ err.kind = "none"
           /\ \A f \in DOMAIN dependencies : ~HasUndefined(dependencies[f], availableAsMap)

\* BuildDependencyGraph failed on an input in which another field has a
\* reference that resolves
C21_Witness ==
    /\ pc = "graph_failed"
    /\ graph = NoGraph
    /\ \E f \in DOMAIN dependencies : ~HasUndefined(dependencies[f], availableAsMap)

\* ------------------------------------------------ the accessibility error
\* the non-exported fields that carry a declaration
HiddenDeclarers == {f \in AnalyzedFields : HasDeclaration(f) /\ ~recordType[f].exported}
FirstHiddenDeclarer == CHOOSE f \in HiddenDeclarers : \A g \in HiddenDeclarers : f <= g

\* C22 as stated: every declaration on a non-exported field makes Analyze fail
\* with an accessibility error that names that field.
C22_Original ==
    AnalyzeDone =>
        \A f \in HiddenDeclarers :
            /\ err.kind = "interpolation"
            /\ err.FieldName = fieldNames(recordType)[f]

\* C22: when non-exported fields carry declarations Analyze fails in its first
\* pass, at the first of them, with an accessibility error that names it -
\* unless a field before it has a malformed config tag, which is reported
\* instead; either way nothing of a later field is recorded and no duplicate
\* detection, reference scan or graph construction has taken place.
C22_AccessError ==
    (AnalyzeDone /\ HiddenDeclarers # {}) =>
        /\ pc = "analyze_failed"
        /\ IF \E g \in AnalyzedFields : g < FirstHiddenDeclarer /\ TagFault(g)
           THEN err.kind = "tagparse"
           ELSE /\ err.kind = "interpolation"
                /\ err.FieldName = fieldNames(recordType)[FirstHiddenDeclarer]
        /\ \A name \in DOMAIN availableAsMap : availableAsMap[name] < FirstHiddenDeclarer
        /\ dependencies = EmptyMap
        /\ graph = NoGraph
        /\ cyclePath = NoCycle
        /\ dependencyStages = <<>>

\* two non-exported fields declare, after an exported field whose declaration
\* was recorded; the error names the first of the two
C22_Witness ==
    /\ AnalyzeDone
    /\ Cardinality(HiddenDeclarers) = 2
    /\ err.kind = "interpolation"
    /\ err.FieldName = fieldNames(recordType)[FirstHiddenDeclarer]
    /\ availableAsMap # EmptyMap

\* ------------------------------------------------ the stages of a record
\* Analyze has returned nil and has sorted the fields into stages
StagesProduced == pc = "analyzed" /\ hasInterpolation

\* the positions (stage, place in the stage) at which field f occurs
OccurrencesOf(stages, f) ==
    {<<k, j>> \in (1 .. Len(stages)) \X (1 .. NumFields) :
        j <= Len(stages[k]) /\ stages[k][j] = f}

FieldsOfStage(stages, k) == SeqToSet(stages[k])

\* C23: the stages Analyze produces for a record without cycle are an ordered
\* partition of the field indices of the record: every field, those with
\* neither declaration nor reference included, occurs in exactly one stage,
\* once; no other index occurs; and the first stage holds exactly the fields
\* that reference no variable.
C23_StagesPartition ==
    StagesProduced =>
        /\ dependencyStages # <<>>
        /\ \A f \in AnalyzedFields : Cardinality(OccurrencesOf(dependencyStages, f)) = 1
        /\ \A k \in 1 .. Len(dependencyStages) :
               FieldsOfStage(dependencyStages, k) \subseteq AnalyzedFields
        /\ FieldsOfStage(dependencyStages, 1) =
               {f \in AnalyzedFields : ReferencesOf(f) = <<>>}

\* two stages, the first of which holds a field with neither declaration nor
\* reference next to a field that declares
C23_Witness ==
    /\ StagesProduced
    /\ Len(dependencyStages) = 2
    /\ \E f, g \in FieldsOfStage(dependencyStages, 1) :
         /\ ~HasDeclaration(f)
         /\ ConfigTagOf(f) = <<>>
         /\ HasDeclaration(g)

\* ------------------------------------------------ the sort always completes
\* the number of adjacency-list entries that point to node n
RECURSIVE IncomingEntries(_, _, _)
IncomingEntries(g, n, from) ==
    IF from = {} THEN 0
    ELSE LET p == CHOOSE x \in from : TRUE
         IN  Cardinality({i \in 1 .. Len(g.edges[p]) : g.edges[p][i] = n})
             + IncomingEntries(g, n, from \ {p})

\* the fields of the first k stages
RECURSIVE ProcessedAfter(_, _)
ProcessedAfter(stages, k) ==
    IF k = 0 THEN {} ELSE ProcessedAfter(stages, k - 1) \cup SeqToSet(stages[k])

SortCalled == pc \in {"graph_sorting", "graph_sorted"}
SortReturned == pc = "graph_sorted"

C24_Structure ==
    /\ graph.built =>
           \A n \in DOMAIN graph.nodes :
               graph.nodes[n].inDegree = IncomingEntries(graph, n, DOMAIN graph.edges)
    /\ SortReturned =>
           /\ err.kind \in {"none", "cycle"}
           /\ err.kind = "cycle" <=> HasDirectedCycle(graph)
           /\ err.kind = "none" =>
                  /\ Len(dependencyStages) <= Cardinality(DOMAIN graph.nodes)
                  /\ ProcessedAfter(dependencyStages, Len(dependencyStages)) = DOMAIN graph.nodes
                  /\ \A k \in 0 .. (Len(dependencyStages) - 1) :
                         \E n \in DOMAIN graph.nodes \ ProcessedAfter(dependencyStages, k) :
                             IncomingEntries(graph, n,
                                 DOMAIN graph.edges \ ProcessedAfter(dependencyStages, k)) = 0

\* C24: TopologicalSort always returns; on a graph BuildDependencyGraph made it
\* returns either the cycle error (exactly when the graph has a cycle) or the
\* stages, never the structural-sort error: every node's in-degree is the
\* number of adjacency-list entries that point to it, so each round with
\* unprocessed nodes finds one without a remaining incoming entry, and there
\* are at most as many rounds as nodes.
C24_SortCompletes ==
    /\ []C24_Structure
    /\ (pc = "graph_sorting") ~> SortReturned

\* a sort returned three stages for a graph in which one field references the
\* same variable twice
C24_Witness ==
    /\ SortReturned
    /\ err.kind = "none"
    /\ Len(dependencyStages) = 3
    /\ \E n \in DOMAIN graph.nodes : \E p \in DOMAIN graph.edges :
         /\ graph.nodes[n].inDegree = 2
         /\ graph.edges[p] = <<n, n>>

\* ------------------------------------------------ the earliest stage
Max(S) == CHOOSE x \in S : \A y \in S : y <= x

\* the length of the longest chain of providers that ends in field f
RECURSIVE ChainLength(_)
ChainLength(f) ==
    IF ProvidersOf(f) = {} THEN 0
    ELSE 1 + Max({ChainLength(p) : p \in ProvidersOf(f)})

\* C30: TopologicalSort puts every field in the earliest stage possible: stage
\* 0 if it references no variable, otherwise one past the latest stage of its
\* providers; so no stage is empty and there is one stage more than the
\* longest chain of providers is long.
C30_EarliestStage ==
    Sorted =>
        /\ \A f \in GraphFields :
               StageIndexOf(dependencyStages, f) =
                   IF ProvidersOf(f) = {} THEN 0
                   ELSE 1 + Max({StageIndexOf(dependencyStages, p) : p \in ProvidersOf(f)})
        /\ \A k \in 1 .. Len(dependencyStages) : dependencyStages[k] # <<>>
        /\ Len(dependencyStages) = 1 + Max({ChainLength(f) : f \in GraphFields})

\* a field whose providers sit in two different stages
C30_Witness ==
    /\ Sorted
    /\ \E f \in GraphFields : \E p, q \in ProvidersOf(f) :
         /\ StageIndexOf(dependencyStages, p) = 0
         /\ StageIndexOf(dependencyStages, q) = 1
         /\ StageIndexOf(dependencyStages, f) = 2

\* -------------------------------------------- short-circuit on the staged path
\* Load has returned nil from the staged path with short-circuit on
ShortStagedDone ==
    /\ pc = "returned"
    /\ result.kind = "none"
    /\ ~LoadersIsNil
    /\ hasInterpolation
    /\ ShortCircuit

StageNumbers == 0 .. (Len(dependencyStages) - 1)

\* the loaders called in stage s of the load in progress
LoadersCalledIn(s) == {i \in LoaderIndices : InSeq(Call("load", s, i), Shape(calls))}

\* the value of the last UpdateContext call of this load for field f
LastUpdateOf(f) ==
    calls[CHOOSE k \in 1 .. Len(calls) :
            /\ calls[k].op = "update" /\ calls[k].index = f
            /\ \A j \in (k + 1) .. Len(calls) :
                   ~(calls[j].op = "update" /\ calls[j].index = f)].value

\* the text of a value a record of the driver can hold
TextOfValue(kind, v) == IF kind = "int" /\ v = 0 THEN <<"0">> ELSE TextOf(kind, v)

C25_AfterLoad ==
    ShortStagedDone =>
        /\ \A s \in StageNumbers :
             /\ Count(Shape(calls), Call("interpolate", s, -1)) = 1
             /\ \E n \in 0 .. Len(Loaders) : LoadersCalledIn(s) = 0 .. (n - 1)
             /\ \A f \in SeqToSet(dependencyStages[s + 1]) :
                    Count(Shape(calls), Call("update", s, f)) = 1
        /\ \A f \in DOMAIN recordType :
             HasDeclaration(f) =>
                 /\ DeclaredBy(f) \in DOMAIN interpolationContext
                 /\ interpolationContext[DeclaredBy(f)] =
                        TextOfValue(recordType[f].kind, LastUpdateOf(f))

C25_StageStep ==
    (pc = "stage_loop" /\ ShortCircuit) =>
        /\ LoaderCalled => ~AllExportedSet
        /\ (AllExportedSet /\ loaderIndex < Len(Loaders) /\ ~Loaders[loaderIndex + 1].isNil) =>
               /\ ~LoaderCalled
               /\ pc' = "stage_update"
               /\ stageNum' = stageNum

NilListError == Errorf("InterpolatingChainLoader.Loaders is nil", 0)

\* Load returned the error of a nil entry of the list
NilEntryReturned ==
    /\ pc = "returned"
    /\ Cause(result).kind = "errorf"
    /\ Cause(result).Message = "loader at index is nil"

\* the loader loop stands at a nil entry
AtNilEntry ==
    /\ InLoaderLoop
    /\ loaderIndex < Len(Loaders)
    /\ Loaders[loaderIndex + 1].isNil

\* the pass in progress: the stage on the staged path, -1 on the fast path
CurrentPass == IF hasInterpolation THEN stageNum ELSE -1

C26_State ==
    /\ \A k \in 1 .. Len(calls) :
           calls[k].op = "load" => ~Loaders[calls[k].index + 1].isNil
    /\ LoadersIsNil =>
           /\ pc \in {"idle", "returned"}
           /\ pc = "returned" => result = NilListError
           /\ calls = <<>>
           /\ engineNil
           /\ availableAsMap = EmptyMap /\ dependencies = EmptyMap
           /\ graph = NoGraph /\ dependencyStages = <<>>
    /\ NilEntryReturned =>
           /\ Cause(result).Arg = loaderIndex
           /\ Loaders[loaderIndex + 1].isNil
           /\ LoadersCalledIn(CurrentPass) = 0 .. (loaderIndex - 1)
           /\ \A k \in 1 .. Len(calls) :
                  /\ calls[k].stage <= CurrentPass
                  /\ calls[k].op = "update" => calls[k].stage < CurrentPass

C26_Step ==
    AtNilEntry =>
        /\ pc' = "returned"
        /\ Cause(result') = Errorf("loader at index is nil", loaderIndex)
        /\ calls' = calls
        /\ cfg' = cfg
        /\ interpolationContext' = interpolationContext

\* C26: Load never calls a nil loader. With a nil Loaders list it returns an
\* error before it creates or runs the engine and before any loader call; at a
\* nil entry of the list it returns an error that names the index, having
\* called, in that pass over the list, the loaders before that index and none
\* at or after it.
C26_NilLoaders ==
    /\ []C26_State
    /\ [][C26_Step]_vars

\* the second entry of the list is nil: the first loader ran in the first
\* stage, and Load returned the error for index 1
C26_Witness ==
    /\ NilEntryReturned
    /\ hasInterpolation
    /\ Cause(result).Arg = 1
    /\ Shape(calls) = <<Call("interpolate", 0, -1), Call("load", 0, 0)>>

\* ------------------------------------- the context at the start of a stage
\* the fields of stage k (0-based) of the load in progress
FieldsOfStageNum(k) == SeqToSet(dependencyStages[k + 1])

\* the variables the fields of stage k reference
ReferencedIn(k) == UNION {SeqToSet(ReferencesOf(f)) : f \in FieldsOfStageNum(k)}

\* this load has called UpdateContext for field p in a stage before stage k
UpdatedBefore(p, k) ==
    \E u \in 1 .. Len(calls) :
        calls[u].op = "update" /\ calls[u].index = p /\ calls[u].stage < k

InterpolationFailed ==
    /\ pc = "returned"
    /\ result.kind = "wrapped"
    /\ result.Message = "failed to interpolate tags for stage"

C27_AtStageStart ==
    /\ pc = "stage_interpolate" =>
           \A v \in ReferencedIn(stageNum) :
               /\ v \in DOMAIN availableAsMap
               /\ StageIndexOf(dependencyStages, availableAsMap[v]) < stageNum
               /\ UpdatedBefore(availableAsMap[v], stageNum)
               /\ v \in DOMAIN interpolationContext
    /\ ~InterpolationFailed

\* C27: in a staged Load, when InterpolateTags is called for stage k the
\* context holds an entry for every variable a field of stage k references,
\* the provider of each sits in an earlier stage and this load has already
\* called UpdateContext for it; so the call returns nil and Load never returns
\* the error of a failed stage interpolation.
C27_StageInterpolationSucceeds ==
    /\ []C27_AtStageStart
    /\ [][pc = "stage_interpolate" =>
            /\ pc' = "stage_loop"
            /\ result' = result
            /\ interpolationContext' = interpolationContext]_vars

\* the third stage has been interpolated: its field references two variables,
\* provided by fields of the first and of the second stage
C27_Witness ==
    /\ pc = "stage_loop"
    /\ stageNum = 2
    /\ \E v, w \in ReferencedIn(2) :
         /\ StageIndexOf(dependencyStages, availableAsMap[v]) = 0
         /\ StageIndexOf(dependencyStages, availableAsMap[w]) = 1
         /\ v \in DOMAIN interpolationContext
         /\ w \in DOMAIN interpolationContext

\* ------------------------------------------------ the keys of the context
\* Load has returned nil from the staged path
StagedLoadSucceeded ==
    /\ pc = "returned"
    /\ result.kind = "none"
    /\ ~LoadersIsNil
    /\ hasInterpolation

\* the variable names the config tags of the record declare
DeclaredNames == {DeclaredBy(f) : f \in {g \in DOMAIN recordType : HasDeclaration(g)}}

\* C28: after a successful staged Load the keys of the interpolation context
\* are exactly the variable names the record declares.
C28_ContextKeys ==
    StagedLoadSucceeded => DOMAIN interpolationContext = DeclaredNames

\* a successful staged load of a record that declares two variables and has a
\* field that declares none
C28_Witness ==
    /\ StagedLoadSucceeded
    /\ Cardinality(DOMAIN interpolationContext) = 2
    /\ \E f \in DOMAIN recordType : ~HasDeclaration(f) /\ ReferencesOf(f) = <<>>

\* ------------------------------------------- one write per variable and load
\* the positions of the UpdateContext calls of this load for field f
UpdatesOf(f) == {u \in 1 .. Len(calls) : calls[u].op = "update" /\ calls[u].index = f}

InStagedLoad == hasInterpolation /\ pc \in {"stage_interpolate", "stage_loop", "stage_update", "returned"}

C29_State ==
    InStagedLoad =>
        \A f \in DOMAIN recordType :
            HasDeclaration(f) =>
                /\ Cardinality(UpdatesOf(f)) <= 1
                /\ (StagedLoadSucceeded /\ calls # <<>>) => Cardinality(UpdatesOf(f)) = 1
                /\ \A u \in UpdatesOf(f) :
                       /\ calls[u].stage = StageIndexOf(dependencyStages, f)
                       /\ DeclaredBy(f) \in DOMAIN interpolationContext
                       /\ interpolationContext[DeclaredBy(f)] =
                              TextOfValue(recordType[f].kind, calls[u].value)

\* a step of the staged path writes the context only in the context update of
\* a stage, for the fields of that stage, from the values the record holds
C29_Step ==
    /\ pc \in {"stage_interpolate", "stage_loop"} => interpolationContext' = interpolationContext
    /\ pc = "stage_update" =>
           /\ cfg' = cfg
           /\ IsPrefix(calls, calls')
           /\ \A u \in (Len(calls) + 1) .. Len(calls') :
                  /\ calls'[u].op = "update"
                  /\ calls'[u].stage = stageNum
                  /\ calls'[u].index \in FieldsOfStageNum(stageNum)
                  /\ calls'[u].value = cfg[calls'[u].index]
           /\ \A name \in DOMAIN interpolationContext' :
                  (name \notin DOMAIN interpolationContext
                      \/ interpolationContext'[name] # interpolationContext[name]) =>
                  /\ name \in DOMAIN availableAsMap
                  /\ availableAsMap[name] \in FieldsOfStageNum(stageNum)

\* C29: during one staged Load the context entry of each declared variable is
\* written once, by the context update of the stage of its provider, with the
\* text of the value the field holds at that moment; the loader passes of the
\* later stages write the record but not the context, so the entry stays as
\* written even when a later pass changes the field.
C29_WrittenOnce ==
    /\ []C29_State
    /\ [][C29_Step]_vars

\* a loader of a later stage has just given a providing field another value
\* than the one its variable was given in the first stage, and the context
\* still holds the text of the earlier value
C29_Witness ==
    /\ pc = "stage_loop"
    /\ stageNum >= 1
    /\ loaderIndex >= 1
    /\ \E f \in DOMAIN recordType : \E u \in UpdatesOf(f) :
         /\ HasDeclaration(f)
         /\ calls[u].stage = 0
         /\ calls[u].value # cfg[f]
         /\ interpolationContext[DeclaredBy(f)] = TextOfValue(recordType[f].kind, calls[u].value)
         /\ interpolationContext[DeclaredBy(f)] # TextOfValue(recordType[f].kind, cfg[f])
====
